---- MODULE Spec2Model ----
(***************************************************************************)
(* Model of the gesture-driven string control of hursh-desai/music: the    *)
(* per-frame draw() of the StringCanvas component (pinch detection with    *)
(* hysteresis and debounce, per-endpoint grab/release, spring-return       *)
(* easing).                                                                *)
(*                                                                         *)
(* Coordinates are fixed-point: one unit is a hundredth of a pixel         *)
(* (Px(n) is n pixels).  Euclidean distances are compared through their    *)
(* squares, which orders them exactly as Math.hypot does.  Hands are given *)
(* by the canvas coordinates of their index and thumb tips, the values     *)
(* draw() works on after videoToCanvas.                                    *)
(*                                                                         *)
(* The control signals of utils.ts, the parameter mapping of audioConfig   *)
(* and the audio update effect of the Home page are modelled after the     *)
(* canvas.  Spec is the canvas, EaseSpec the spring return of released     *)
(* endpoints, ControlsSpec one call of computeStringControls(),            *)
(* UpdateAudioSpec one call of updateAudio(), HomeSpec the Home page       *)
(* driven by reported string states and configuration changes, with        *)
(* initializeAudio() running to its end at once and no audio call          *)
(* throwing.  AudioSpec is the Home page with initializeAudio() runs       *)
(* inside their awaits and audio calls that throw, HandposeSpec the frame  *)
(* loop of useHandposeMediaPipe.                                           *)
(***************************************************************************)
EXTENDS Integers, Sequences, FiniteSets, TLC

VARIABLES
    hands,          \* the hands prop of the current render (Hand[])
    now,            \* Date.now(), in ms since the component mounted
    leftEnd,        \* stateRef.current.leftEnd
    rightEnd,       \* stateRef.current.rightEnd
    leftGrabbed,    \* stateRef.current.leftGrabbed
    rightGrabbed,   \* stateRef.current.rightGrabbed
    leftHandId,     \* stateRef.current.leftHandId
    rightHandId,    \* stateRef.current.rightHandId
    pinchStates,    \* stateRef.current.pinchStates
    handTips        \* the handTips list built by the last draw()

\* the state of the Home page, which consumes the string state
VARIABLES
    stringState,        \* stringState, set by onStateChange (null: NoState)
    previousTension,    \* previousTensionRef.current
    lastUpdateTime,     \* lastUpdateTimeRef.current
    isPlaying,          \* isPlayingRef.current
    currentConfig,      \* currentConfig
    controls,           \* the StringControls of the last computeStringControls()
    synth,              \* the parameter values last written to the audio objects
    calls,              \* the note calls made on the synth by the last audio update
    args                \* the remaining arguments of the last call of
                        \* computeStringControls() and updateAudio()

\* the audio objects of the Home page and its pending initialisations
VARIABLES
    audioInitialized,   \* audioInitialized
    audioRef,           \* audioRef.current: the index in chains of the audio
                        \* objects it points at (null: Null)
    chains,             \* the audio objects initAudio() has returned, in the
                        \* order of their creation
    awaiting,           \* the configurations of the initializeAudio() runs that
                        \* are inside their awaits
    thrown,             \* the note calls that threw in the last audio update
    calledOn            \* the audio objects the last audio update made its
                        \* calls on (none made: Null)

\* the state of useHandposeMediaPipe and of the video element it reads
VARIABLES
    mounted,            \* "no", "yes" (the effect has run), "cleaned" (its
                        \* cleanup has run)
    readyState,         \* video.readyState
    listener,           \* the loadedmetadata listener is registered
    isInitialized,      \* isInitializedRef.current
    handsRef,           \* handsRef.current is set
    closed,             \* close() was called on the Hands object
    animationFrameRef,  \* animationFrameRef.current
    scheduled,          \* the animation frame requests not yet run or cancelled
    sending,            \* processFrame is inside `await hands.send(...)`
    frameId,            \* the last id requestAnimationFrame returned
    sent                \* the number of frames sent to the tracker

homeVars == <<previousTension, lastUpdateTime, isPlaying, currentConfig,
              controls, synth, calls, args>>

audioVars == <<audioInitialized, audioRef, chains, awaiting, thrown, calledOn>>

hookVars == <<mounted, readyState, listener, isInitialized, handsRef, closed,
              animationFrameRef, scheduled, sending, frameId, sent>>

vars == <<hands, now, leftEnd, rightEnd, leftGrabbed, rightGrabbed,
          leftHandId, rightHandId, pinchStates, handTips, stringState,
          previousTension, lastUpdateTime, isPlaying, currentConfig,
          controls, synth, calls, args,
          audioInitialized, audioRef, chains, awaiting, thrown, calledOn,
          mounted, readyState, listener, isInitialized, handsRef, closed,
          animationFrameRef, scheduled, sending, frameId, sent>>

----------------------------------------------------------------------------
(* Program constants *)

GRAB_RADIUS == 30
RELEASE_HYSTERESIS == 10
\* EASING_FACTOR is 0.15; kept in hundredths
EASING_FACTOR == 15
PINCH_THRESHOLD == 50
PINCH_RELEASE_THRESHOLD == 80
PINCH_DEBOUNCE_TIME == 150
\* height prop of StringCanvas
Height == 600
\* maxNumHands of the tracker: hands never holds more entries
MaxNumHands == 2
\* null of leftHandId / rightHandId / releaseTime
Null == -1

(* Bounds of the model *)

\* width prop of StringCanvas, in pixels: a narrow canvas, whose anchors are
\* 80 px apart, so that a dragged endpoint reaches the other one in a few ticks
\* (an endpoint moves at most GRAB_RADIUS + RELEASE_HYSTERESIS per tick)
Width == 160
\* draw() is not run once now has reached MaxTime
MaxTime == 300

Px(n) == n * 100

\* a tip that is missing from the hand data
NoPoint == [x |-> -1, y |-> -1]

Point(px, py) == [x |-> px, y |-> py]

LeftAnchor == Point((Px(Width) * 25) \div 100, Px(Height) \div 2)
RightAnchor == Point((Px(Width) * 75) \div 100, Px(Height) \div 2)

----------------------------------------------------------------------------
(* Inputs *)

\* index-tip positions the tracker reports, relative to the left anchor:
\* on it, 30 px from it (off the string's axis), 40 px and 70 px to its right
Tips ==
    { Point(LeftAnchor.x, LeftAnchor.y),
      Point(LeftAnchor.x + Px(18), LeftAnchor.y + Px(24)),
      Point(LeftAnchor.x + Px(40), LeftAnchor.y),
      Point(LeftAnchor.x + Px(70), LeftAnchor.y) }

\* time between two runs of draw(), in ms
FrameTimes == {75}

Hand(index, thumb) == [index |-> index, thumb |-> thumb]

\* a hand whose thumb tip is g pixels from its index tip p
HandAt(p, g) == Hand(p, Point(p.x + Px(g), p.y))

\* hands with the thumb 40 px (closed) or 80 px (open) from the index tip, a
\* hand with the thumb at 50 px, a hand without thumb tip and a hand without
\* index tip
HandValues ==
    { HandAt(p, g) : p \in Tips, g \in {40, 80} }
    \cup { HandAt(LeftAnchor, 50), Hand(LeftAnchor, NoPoint), Hand(NoPoint, NoPoint) }

HandLists ==
    UNION { [1..n -> HandValues] : n \in 0..MaxNumHands }

----------------------------------------------------------------------------
(* Geometry *)

Sq(n) == n * n

\* the square of distance(a, b)
DistSq(a, b) == Sq(a.x - b.x) + Sq(a.y - b.y)

\* Scaled with a factor of 0.01 in place of EASING_FACTOR
Scaled_Weak(n) ==
    IF n >= 0 THEN n \div 100
              ELSE -((-n) \div 100)

\* (n * EASING_FACTOR) rounded toward zero
Scaled(n) ==
    IF n >= 0 THEN (n * EASING_FACTOR) \div 100
              ELSE -(((-n) * EASING_FACTOR) \div 100)

\* lerp that moves an endpoint past its target (a factor of 1.15)
lerp_Overshoot(start, end) ==
    Point(end.x + Scaled(end.x - start.x), end.y + Scaled(end.y - start.y))

lerp(start, end) ==
    Point(start.x + Scaled(end.x - start.x), start.y + Scaled(end.y - start.y))

----------------------------------------------------------------------------
(* Pinch detection *)

\* getPinchState with one threshold for both states (no hysteresis)
getPinchState_OneThreshold(hand, currentState) ==
    IF hand.thumb = NoPoint \/ hand.index = NoPoint
    THEN FALSE
    ELSE DistSq(hand.thumb, hand.index) < Sq(Px(PINCH_THRESHOLD))

\* getPinchState: the raw pinch of a hand, with hysteresis on currentState
getPinchState(hand, currentState) ==
    IF hand.thumb = NoPoint \/ hand.index = NoPoint
    THEN FALSE
    ELSE IF currentState
         THEN DistSq(hand.thumb, hand.index) < Sq(Px(PINCH_RELEASE_THRESHOLD))
         ELSE DistSq(hand.thumb, hand.index) < Sq(Px(PINCH_THRESHOLD))

\* the hands of hs that have an index tip; handId is the array index
ActiveHandIds(hs) == { i - 1 : i \in { j \in 1..Len(hs) : hs[j].index # NoPoint } }

\* state.pinchStates[handId], initialised on first use
PinchData(handId) ==
    IF handId \in DOMAIN pinchStates
    THEN pinchStates[handId]
    ELSE [state |-> FALSE, releaseTime |-> Null]

rawPinchState(hs, handId) == getPinchState(hs[handId + 1], PinchData(handId).state)

\* ReleaseTimeUpdate that stamps the time on every tick without raw pinch
ReleaseTimeUpdate_Restamps(pinchData, raw, currentTime) ==
    IF raw THEN Null ELSE currentTime

\* pinchData.releaseTime after the pinch state tracking of one hand
ReleaseTimeUpdate(pinchData, raw, currentTime) ==
    IF ~raw /\ pinchData.state
    THEN IF pinchData.releaseTime = Null THEN currentTime ELSE pinchData.releaseTime
    ELSE IF raw THEN Null ELSE pinchData.releaseTime

\* the pinch record of one hand after this draw()
PinchUpdate(hs, handId, currentTime) ==
    [state |-> rawPinchState(hs, handId),
     releaseTime |-> ReleaseTimeUpdate(PinchData(handId), rawPinchState(hs, handId),
                                       currentTime)]

isControllingEndpoint(handId) ==
    (leftHandId = handId /\ leftGrabbed) \/ (rightHandId = handId /\ rightGrabbed)

\* the debounced pinch: raw, or controlling and inside the debounce window
isPinched(raw, controlling, releaseTime, currentTime) ==
    \/ raw
    \/ /\ ~raw
       /\ controlling
       /\ releaseTime # Null
       /\ currentTime - releaseTime < PINCH_DEBOUNCE_TIME

\* the HandTip pushed for one hand
HandTip(hs, handId, currentTime) ==
    [x |-> hs[handId + 1].index.x,
     y |-> hs[handId + 1].index.y,
     handId |-> handId,
     isPinched |-> isPinched(rawPinchState(hs, handId),
                             isControllingEndpoint(handId),
                             PinchUpdate(hs, handId, currentTime).releaseTime,
                             currentTime)]

RECURSIVE CollectHandTips(_, _, _)
\* handTips: one entry per hand with an index tip, in the order of hs from i on
CollectHandTips(hs, i, currentTime) ==
    IF i > Len(hs)
    THEN << >>
    ELSE IF hs[i].index # NoPoint
         THEN << HandTip(hs, i - 1, currentTime) >> \o CollectHandTips(hs, i + 1, currentTime)
         ELSE CollectHandTips(hs, i + 1, currentTime)

\* PinchStatesUpdate without the clean up: the records of absent hands stay
PinchStatesUpdate_NoCleanUp(hs, currentTime) ==
    [ handId \in ActiveHandIds(hs) \cup DOMAIN pinchStates |->
        IF handId \in ActiveHandIds(hs)
        THEN PinchUpdate(hs, handId, currentTime)
        ELSE pinchStates[handId] ]

\* pinchStates after the per-hand update and the clean up of absent hands
PinchStatesUpdate(hs, currentTime) ==
    [ handId \in ActiveHandIds(hs) |-> PinchUpdate(hs, handId, currentTime) ]

----------------------------------------------------------------------------
(* Grab / release of one endpoint *)

\* an endpoint's grab state: position, grabbed flag and controlling hand id
Endpoint(end, grabbed, handId) == [end |-> end, grabbed |-> grabbed, handId |-> handId]

\* PresenceCheck that keeps an endpoint whose controlling hand is gone
PresenceCheck_Keeps(e, active) == e

\* "Check if previously controlling hands are still present"
PresenceCheck(e, active) ==
    IF e.handId # Null /\ e.handId \notin active
    THEN Endpoint(e.end, FALSE, Null)
    ELSE e

\* ClosestIndex in which the last of the closest tips wins a tie
ClosestIndex_LastWins(tips, end) ==
    CHOOSE i \in 1..Len(tips) :
        /\ \A j \in 1..(i - 1) : DistSq(tips[j], end) >= DistSq(tips[i], end)
        /\ \A j \in (i + 1)..Len(tips) : DistSq(tips[j], end) > DistSq(tips[i], end)

\* position in tips of the closest tip to end; the first one wins a tie
ClosestIndex(tips, end) ==
    CHOOSE i \in 1..Len(tips) :
        /\ \A j \in 1..(i - 1) : DistSq(tips[j], end) > DistSq(tips[i], end)
        /\ \A j \in (i + 1)..Len(tips) : DistSq(tips[j], end) >= DistSq(tips[i], end)

\* WithinGrabRadius with the pinch threshold (50 px) as the radius
WithinGrabRadius_PinchThreshold(tip, end) == DistSq(tip, end) <= Sq(Px(PINCH_THRESHOLD))

WithinGrabRadius(tip, end) == DistSq(tip, end) <= Sq(Px(GRAB_RADIUS))

BeyondRelease(tip, end) == DistSq(tip, end) > Sq(Px(GRAB_RADIUS + RELEASE_HYSTERESIS))

\* "Start grabbing" and "Stick endpoint to hand"
StickTo(e, closest) ==
    Endpoint(Point(closest.x, closest.y), TRUE,
             IF e.grabbed THEN e.handId ELSE closest.handId)

\* ReleaseOrKeep whose release forgets to clear the controlling hand id
ReleaseOrKeep_KeepsId(e, closest) ==
    IF ~closest.isPinched \/ BeyondRelease(closest, e.end)
    THEN Endpoint(e.end, FALSE, e.handId)
    ELSE Endpoint(Point(closest.x, closest.y), e.grabbed, e.handId)

\* ReleaseOrKeep whose release still moves the endpoint to the closest tip
ReleaseOrKeep_MovesToTip(e, closest) ==
    IF ~closest.isPinched \/ BeyondRelease(closest, e.end)
    THEN Endpoint(Point(closest.x, closest.y), FALSE, Null)
    ELSE Endpoint(Point(closest.x, closest.y), e.grabbed, e.handId)

\* the release branch taken while grabbed
ReleaseOrKeep(e, closest) ==
    IF ~closest.isPinched \/ BeyondRelease(closest, e.end)
    THEN Endpoint(e.end, FALSE, Null)
    ELSE Endpoint(Point(closest.x, closest.y), e.grabbed, e.handId)

\* "Process grab/release logic" for one endpoint
GrabRelease(e, tips) ==
    IF Len(tips) = 0
    THEN e
    ELSE LET closest == tips[ClosestIndex(tips, e.end)]
         IN IF WithinGrabRadius(closest, e.end) /\ closest.isPinched
            THEN StickTo(e, closest)
            ELSE IF e.grabbed
                 THEN ReleaseOrKeep(e, closest)
                 ELSE e

\* Easing applied to grabbed endpoints too
Easing_Always(e, anchor) == lerp(e.end, anchor)

\* "Easing: if not grabbed, ease back toward anchor"
Easing(e, anchor) == IF ~e.grabbed THEN lerp(e.end, anchor) ELSE e.end

----------------------------------------------------------------------------
(* Numbers of the control and audio code *)

(* A JavaScript number is a record: a finite value v in the unit of the     *)
(* quantity, NaN, or an infinity (v is its sign).  Normalised quantities    *)
(* (tension, stretch, angle, curved tension) are in thousandths, tension    *)
(* velocity in thousandths per second, deltaTime in units of 1/3000 s,      *)
(* frequencies in Hz, the other mapped parameters in thousandths of their   *)
(* unit (the pan too), curve exponents in tenths.  Quotients are rounded     *)
(* toward zero.                                                             *)

\* 1.0 of a normalised quantity
One == 1000
\* units of deltaTime in one second
TimeScale == 3000

Fin(v) == [k |-> "fin", v |-> v]
NaN == [k |-> "nan", v |-> 0]
PosInf == [k |-> "inf", v |-> 1]
NegInf == [k |-> "inf", v |-> -1]

isNaN(f) == f.k = "nan"
isFinite(f) == f.k = "fin"

Min(a, b) == IF a <= b THEN a ELSE b
Max(a, b) == IF a >= b THEN a ELSE b

\* a / b rounded toward zero, for b > 0
Quot(a, b) == IF a >= 0 THEN a \div b ELSE -((-a) \div b)

\* a {min, max} range of the mappings
Range(min, max) == [min |-> min, max |-> max]

\* audioConfig, the default configuration
audioConfig ==
    [ mappings |->
        [ frequency |-> Range(220, 880),
          filterCutoff |-> Range(200, 8000),
          volume |-> Range(-30000, 0),
          pan |-> Range(-One, One),
          modulationDepth |-> Range(0, 10000),
          distortion |-> Range(0, 800),
          reverb |-> Range(0, 500),
          pluckThreshold |-> 100 ],
      curves |->
        [ volume |-> 8, frequency |-> 10, filterCutoff |-> 20,
          distortion |-> 15, reverb |-> 10 ],
      filter |-> [ frequency |-> 200 ] ]

\* stringState before the first onStateChange (null)
NoState ==
    [leftEnd |-> NoPoint, rightEnd |-> NoPoint,
     leftGrabbed |-> FALSE, rightGrabbed |-> FALSE]

StringState(l, r, lg, rg) ==
    [leftEnd |-> l, rightEnd |-> r, leftGrabbed |-> lg, rightGrabbed |-> rg]

StringControls(tension, leftStretch, rightStretch, angle, tensionVelocity, lg, rg) ==
    [tension |-> tension, leftStretch |-> leftStretch,
     rightStretch |-> rightStretch, angle |-> angle,
     tensionVelocity |-> tensionVelocity,
     isGrabbed |-> [left |-> lg, right |-> rg]]

\* controls before the first computeStringControls()
NoControls == StringControls(Fin(0), Fin(0), Fin(0), Fin(0), Fin(0), FALSE, FALSE)

\* the arguments of the last calls that are not kept in a variable of their own
Args(deltaTime, maxStretch, midpointX, canvasWidth) ==
    [deltaTime |-> deltaTime, maxStretch |-> maxStretch,
     midpointX |-> midpointX, canvasWidth |-> canvasWidth]

NoArgs == Args(Fin(0), 100, Fin(0), Fin(0))

\* the audio parameters before initAudio() (audioRef.current is null)
NoAudio ==
    [created |-> FALSE, frequency |-> Fin(0), volume |-> Fin(0),
     filterCutoff |-> Fin(0), distortion |-> Fin(0), reverbWet |-> Fin(0),
     modulationDepth |-> Fin(0), pan |-> Fin(0)]

\* the audio state and refs of the Home page after its first render
HomeAudioInit ==
    /\ audioInitialized = FALSE
    /\ audioRef = Null
    /\ chains = << >>
    /\ awaiting = << >>
    /\ thrown = << >>
    /\ calledOn = Null

\* useHandposeMediaPipe before its effect has run, the video not loaded
HandposeInit ==
    /\ mounted = "no"
    /\ readyState = 0
    /\ listener = FALSE
    /\ isInitialized = FALSE
    /\ handsRef = FALSE
    /\ closed = FALSE
    /\ animationFrameRef = Null
    /\ scheduled = {}
    /\ sending = FALSE
    /\ frameId = 0
    /\ sent = 0

\* the refs and state of the Home page after its first render
HomeRefsInit ==
    /\ HomeAudioInit
    /\ HandposeInit
    /\ previousTension = Fin(0)
    /\ lastUpdateTime = 0
    /\ isPlaying = FALSE
    /\ currentConfig = audioConfig
    /\ controls = NoControls
    /\ synth = NoAudio
    /\ calls = << >>
    /\ args = NoArgs

HomeInit == stringState = NoState /\ HomeRefsInit

----------------------------------------------------------------------------
(* draw() *)

draw(hs, currentTime) ==
    \E tips \in { CollectHandTips(hs, 1, currentTime) } :
    \E left \in { GrabRelease(PresenceCheck(Endpoint(leftEnd, leftGrabbed, leftHandId),
                                            ActiveHandIds(hs)), tips) } :
    \E right \in { GrabRelease(PresenceCheck(Endpoint(rightEnd, rightGrabbed, rightHandId),
                                             ActiveHandIds(hs)), tips) } :
        /\ handTips' = tips
        /\ pinchStates' = PinchStatesUpdate(hs, currentTime)
        /\ leftGrabbed' = left.grabbed
        /\ leftHandId' = left.handId
        /\ leftEnd' = Easing(left, LeftAnchor)
        /\ rightGrabbed' = right.grabbed
        /\ rightHandId' = right.handId
        /\ rightEnd' = Easing(right, RightAnchor)
        /\ stringState' = StringState(leftEnd', rightEnd', leftGrabbed', rightGrabbed')

Init ==
    /\ hands = << >>
    /\ now = 0
    /\ leftEnd = LeftAnchor
    /\ rightEnd = RightAnchor
    /\ leftGrabbed = FALSE
    /\ rightGrabbed = FALSE
    /\ leftHandId = Null
    /\ rightHandId = Null
    /\ pinchStates = << >>
    /\ handTips = << >>
    /\ HomeInit

\* the tracker delivers a changed hand list: the effect re-runs and calls draw()
SetHands ==
    \E hs \in HandLists, dt \in FrameTimes :
        /\ hs # hands
        /\ now + dt <= MaxTime
        /\ hands' = hs
        /\ now' = now + dt
        /\ draw(hs, now + dt)
        /\ UNCHANGED <<homeVars, audioVars, hookVars>>

\* requestAnimationFrame(draw): draw() runs again on the same hands
AnimationFrame ==
    \E dt \in FrameTimes :
        /\ now + dt <= MaxTime
        /\ hands' = hands
        /\ now' = now + dt
        /\ draw(hands, now + dt)
        /\ UNCHANGED <<homeVars, audioVars, hookVars>>

Next == SetHands \/ AnimationFrame

Spec == Init /\ [][Next]_vars

----------------------------------------------------------------------------
(* Vocabulary of the properties *)

\* the grab state of the two endpoints, before and after a step
Left == Endpoint(leftEnd, leftGrabbed, leftHandId)
Right == Endpoint(rightEnd, rightGrabbed, rightHandId)
LeftNext == Endpoint(leftEnd', leftGrabbed', leftHandId')
RightNext == Endpoint(rightEnd', rightGrabbed', rightHandId')

\* the hand ids that have an entry in a handTips list
TipIds(tips) == { tips[i].handId : i \in 1..Len(tips) }

\* the entry of hand handId in a handTips list
TipOf(tips, handId) == tips[CHOOSE i \in 1..Len(tips) : tips[i].handId = handId]

TipPoint(tip) == Point(tip.x, tip.y)

\* an endpoint is Idle or Grabbed
Idle(e) == ~e.grabbed /\ e.handId = Null
Grabbed(e) == e.grabbed /\ e.handId # Null

\* the tips that are effectively pinching and within GRAB_RADIUS of end
InRadiusPinching(tips, end) ==
    SelectSeq(tips, LAMBDA t : t.isPinched /\ WithinGrabRadius(t, end))

\* the controlling hand of e is observed, effectively pinching and within
\* GRAB_RADIUS + RELEASE_HYSTERESIS of the endpoint
ControllerHolds(e, tips) ==
    /\ e.handId \in TipIds(tips)
    /\ TipOf(tips, e.handId).isPinched
    /\ ~BeyondRelease(TipOf(tips, e.handId), e.end)

\* the square of the thumb-to-index distance of a hand
PinchDistSq(hand) == DistSq(hand.thumb, hand.index)

----------------------------------------------------------------------------
(* C1 *)

\* C1: after every tick, each endpoint is grabbed if and only if its
\* controlling hand id is non-null (so a release clears both together).
C1_GrabbedIffController ==
    /\ leftGrabbed <=> leftHandId # Null
    /\ rightGrabbed <=> rightHandId # Null

\* a released endpoint (idle, still displaced from its anchor) next to a
\* grabbed one
C1_Witness ==
    /\ ~leftGrabbed /\ leftHandId = Null /\ leftEnd # LeftAnchor
    /\ rightGrabbed /\ rightHandId # Null

----------------------------------------------------------------------------
(* C2 *)

\* C2: in no reachable state are both endpoints Grabbed with the same
\* controlling hand id.
C2_OneHandOneEndpoint ==
    ~(leftGrabbed /\ rightGrabbed /\ leftHandId = rightHandId)

----------------------------------------------------------------------------
(* C3 *)

\* an Idle endpoint with a pinching hand within GRAB_RADIUS is grabbed by the
\* closest of the pinching in-radius hands and snaps to its tip
IdleIsGrabbedByClosestPinching(e, eNext, tips) ==
    (Idle(e) /\ Len(InRadiusPinching(tips, e.end)) > 0) =>
        LET q == InRadiusPinching(tips, e.end)
            c == q[ClosestIndex(q, e.end)]
        IN /\ eNext.grabbed
           /\ eNext.handId = c.handId
           /\ eNext.end = TipPoint(c)

\* C3: if an endpoint is Idle at the start of a tick and some observed hand is
\* effectively pinching within GRAB_RADIUS of it, then after the tick it is
\* Grabbed by the closest such hand and sits on that hand's tip, whatever the
\* other observed hands are.
C3_IdleGrabbedByClosestPinching ==
    [][ /\ IdleIsGrabbedByClosestPinching(Left, LeftNext, handTips')
        /\ IdleIsGrabbedByClosestPinching(Right, RightNext, handTips') ]_vars

----------------------------------------------------------------------------
(* C4 *)

\* a Grabbed endpoint whose controlling hand still holds stays Grabbed and
\* moves to that hand's tip
ControllerKeepsEndpoint(e, eNext, tips) ==
    (Grabbed(e) /\ ControllerHolds(e, tips)) =>
        /\ eNext.grabbed
        /\ eNext.end = TipPoint(TipOf(tips, e.handId))

\* C4: while an endpoint is Grabbed, on every tick in which its controlling
\* hand is observed, effectively pinching and within GRAB_RADIUS +
\* RELEASE_HYSTERESIS of the endpoint's previous position, the endpoint stays
\* Grabbed and moves to the controlling hand's tip, whatever the other hands do.
C4_ControllerKeepsEndpoint ==
    [][ /\ ControllerKeepsEndpoint(Left, LeftNext, handTips')
        /\ ControllerKeepsEndpoint(Right, RightNext, handTips') ]_vars

----------------------------------------------------------------------------
(* C5 *)

\* a Grabbed endpoint whose controlling hand no longer holds becomes Idle
ControllerLossReleases(e, eNext, tips) ==
    (Grabbed(e) /\ ~ControllerHolds(e, tips)) => Idle(eNext)

\* C5: a Grabbed endpoint becomes Idle in the same tick whenever its
\* controlling hand is not observed, is not effectively pinching or is farther
\* than GRAB_RADIUS + RELEASE_HYSTERESIS from it, even with another hand near.
C5_ControllerLossReleases ==
    [][ /\ ControllerLossReleases(Left, LeftNext, handTips')
        /\ ControllerLossReleases(Right, RightNext, handTips') ]_vars

----------------------------------------------------------------------------
(* C6 *)

\* every observed hand is effectively pinching
AllPinching(tips) == \A i \in 1..Len(tips) : tips[i].isPinched

\* the thresholds of one endpoint: GRAB_RADIUS to grab, GRAB_RADIUS +
\* RELEASE_HYSTERESIS to keep
GrabHysteresis(e, eNext, tips) ==
    /\ (Idle(e) /\ eNext.grabbed) =>
           /\ Len(InRadiusPinching(tips, e.end)) > 0
           /\ WithinGrabRadius(TipOf(tips, eNext.handId), e.end)
    /\ ( /\ Grabbed(e)
         /\ ControllerHolds(e, tips)
         /\ ~WithinGrabRadius(TipOf(tips, e.handId), e.end) ) => eNext.grabbed
    /\ ( /\ Grabbed(e)
         /\ ~eNext.grabbed
         /\ e.handId \in TipIds(tips)
         /\ AllPinching(tips) ) => BeyondRelease(TipOf(tips, e.handId), e.end)

\* C6: an Idle endpoint becomes Grabbed only if a pinching hand is within
\* GRAB_RADIUS of it; a pinching hand farther than GRAB_RADIUS but within
\* GRAB_RADIUS + RELEASE_HYSTERESIS never grabs an Idle endpoint but keeps the
\* endpoint it holds; a release by distance happens only beyond
\* GRAB_RADIUS + RELEASE_HYSTERESIS.
C6_GrabHysteresis ==
    [][ /\ GrabHysteresis(Left, LeftNext, handTips')
        /\ GrabHysteresis(Right, RightNext, handTips') ]_vars

----------------------------------------------------------------------------
(* C7 *)

\* one observed hand, pinching, within GRAB_RADIUS of an Idle endpoint
SingleHandGrabs(e, eNext, tips, pinches) ==
    ( /\ Idle(e)
      /\ Len(tips) = 1
      /\ pinches[tips[1].handId].state
      /\ WithinGrabRadius(tips[1], e.end) ) =>
        /\ eNext.grabbed
        /\ eNext.end = TipPoint(tips[1])

\* C7: with exactly one observed hand whose pinch is true and whose index tip
\* is within GRAB_RADIUS of an Idle endpoint, the endpoint is Grabbed at the
\* end of the same tick and its position is exactly the hand's tip.
C7_SingleHandGrabs ==
    [][ /\ SingleHandGrabs(Left, LeftNext, handTips', pinchStates')
        /\ SingleHandGrabs(Right, RightNext, handTips', pinchStates') ]_vars

\* after the first tick: the left endpoint grabbed by the only hand, on its
\* tip 30 px away from the anchor it rested on
C7_Witness ==
    /\ now \in FrameTimes
    /\ Len(handTips) = 1
    /\ leftGrabbed
    /\ leftEnd = TipPoint(handTips[1])
    /\ DistSq(leftEnd, LeftAnchor) = Sq(Px(GRAB_RADIUS))

----------------------------------------------------------------------------
(* C8 *)

\* the stored pinch state of a hand changes as the thresholds say
PinchHysteresis(hand, stored, after) ==
    /\ stored => (after <=> PinchDistSq(hand) < Sq(Px(PINCH_RELEASE_THRESHOLD)))
    /\ ~stored => (after <=> PinchDistSq(hand) < Sq(Px(PINCH_THRESHOLD)))

\* C8: over any sequence of ticks, a hand whose stored pinch state is true
\* stays pinching exactly while its thumb-index distance is below
\* PINCH_RELEASE_THRESHOLD, and a hand whose stored pinch state is false
\* becomes pinching only below PINCH_THRESHOLD; in between the state is kept.
C8_PinchHysteresis ==
    [][ \A i \in 1..Len(hands') :
            (hands'[i].index # NoPoint /\ hands'[i].thumb # NoPoint) =>
                PinchHysteresis(hands'[i], PinchData(i - 1).state,
                                pinchStates'[i - 1].state) ]_vars

\* a hand with its thumb 50 px from its index tip that is still pinching
C8_Witness ==
    \E i \in 1..Len(hands) :
        /\ hands[i] = HandAt(LeftAnchor, 50)
        /\ pinchStates[i - 1].state

----------------------------------------------------------------------------
(* C9 *)

\* the debounce of one observed hand in a tick at time t
Debounce(tip, controlling, pinch, t) ==
    /\ (~pinch.state /\ controlling) =>
           /\ pinch.releaseTime # Null
           /\ tip.isPinched <=> (t - pinch.releaseTime < PINCH_DEBOUNCE_TIME)
    /\ ~controlling => (tip.isPinched <=> pinch.state)

\* the effect of the debounce on the endpoint the hand controls
DebouncedRelease(e, eNext, tips, pinches, t) ==
    ( /\ Grabbed(e)
      /\ e.handId \in TipIds(tips)
      /\ ~pinches[e.handId].state ) =>
        IF t - pinches[e.handId].releaseTime < PINCH_DEBOUNCE_TIME
        THEN ~BeyondRelease(TipOf(tips, e.handId), e.end) => eNext.grabbed
        ELSE ~eNext.grabbed

\* C9: when the raw pinch of a hand that controls a Grabbed endpoint is false,
\* the hand is treated as pinching on every tick less than
\* PINCH_DEBOUNCE_TIME after its recorded release time, so the dropout does
\* not release the endpoint, and as not pinching from then on, which releases
\* the endpoint; a hand that controls no endpoint gets no debounce.
C9_DebouncedRelease ==
    [][ /\ \A i \in 1..Len(handTips') :
               Debounce(handTips'[i], isControllingEndpoint(handTips'[i].handId),
                        pinchStates'[handTips'[i].handId], now')
        /\ DebouncedRelease(Left, LeftNext, handTips', pinchStates', now')
        /\ DebouncedRelease(Right, RightNext, handTips', pinchStates', now') ]_vars

----------------------------------------------------------------------------
(* C10 *)

\* C10: after any tick in which no hand is observed (no hand, or no hand with
\* an index tip), both endpoints are Idle with no controlling hand id.
C10_NoHandsBothIdle ==
    ActiveHandIds(hands) = {} => Idle(Left) /\ Idle(Right)

\* a tick on a hand without index tip that released the left endpoint: the
\* endpoint is one easing step away from the tip that held it 40 px from its
\* anchor
C10_Witness ==
    /\ Len(hands) > 0
    /\ ActiveHandIds(hands) = {}
    /\ Idle(Left)
    /\ leftEnd = lerp(Point(LeftAnchor.x + Px(40), LeftAnchor.y), LeftAnchor)

----------------------------------------------------------------------------
(* C11 *)

\* new is old + (target - old) * 0.15 on one axis, up to the truncation of
\* the fixed-point product
EasedBy15(old, new, target) ==
    /\ 100 * (new - old) - EASING_FACTOR * (target - old) < 100
    /\ EASING_FACTOR * (target - old) - 100 * (new - old) < 100

\* new lies between old and target on one axis
NotPast(old, new, target) ==
    \/ old <= new /\ new <= target
    \/ target <= new /\ new <= old

\* the easing step of one endpoint: e before the tick, eNext after it
EasingStep(e, eNext, anchor, tips) ==
    /\ ~eNext.grabbed =>
           /\ EasedBy15(e.end.x, eNext.end.x, anchor.x)
           /\ EasedBy15(e.end.y, eNext.end.y, anchor.y)
           /\ DistSq(eNext.end, anchor) <= DistSq(e.end, anchor)
           /\ NotPast(e.end.x, eNext.end.x, anchor.x)
           /\ NotPast(e.end.y, eNext.end.y, anchor.y)
    /\ eNext.grabbed =>
           \E i \in 1..Len(tips) : eNext.end = TipPoint(tips[i])

\* C11: on every tick an endpoint that is not grabbed after the grab/release
\* evaluation moves from its position p to p + (anchor - p) * 0.15, so its
\* distance to the anchor does not increase and it does not pass the anchor;
\* an endpoint that is grabbed after the evaluation is left on the hand tip
\* the evaluation put it on.
C11_SpringReturnEasing ==
    [][ /\ EasingStep(Left, LeftNext, LeftAnchor, handTips')
        /\ EasingStep(Right, RightNext, RightAnchor, handTips') ]_vars

\* the left endpoint two easing steps after its release 40 px from the
\* anchor, while the right endpoint is held on a tip
C11_Witness ==
    /\ Idle(Left)
    /\ leftEnd = lerp(lerp(Point(LeftAnchor.x + Px(40), LeftAnchor.y), LeftAnchor),
                      LeftAnchor)
    /\ Grabbed(Right)
    /\ rightEnd = Point(LeftAnchor.x + Px(70), LeftAnchor.y)

----------------------------------------------------------------------------
(* C12 *)

(* Bounds of the spring-return specification *)

\* ticks within which an idle endpoint is claimed to be back at its anchor
EaseTicks == 36
\* draw() is not run after EaseMaxTicks ticks
EaseMaxTicks == 40

\* "within epsilon" of the anchor: one pixel
EaseEpsilon == Px(1)

\* the frame time of the spring-return specification
EaseFrameTime == CHOOSE dt \in FrameTimes : TRUE

\* starting displacements of a released endpoint: the corners of the canvas,
\* a point 40 px from the left anchor, and the middle of the string
EaseStarts ==
    { Point(0, 0), Point(Px(Width), 0), Point(0, Px(Height)),
      Point(Px(Width), Px(Height)),
      Point(LeftAnchor.x + Px(40), LeftAnchor.y),
      Point((LeftAnchor.x + RightAnchor.x) \div 2, LeftAnchor.y - Px(7)) }

\* hand lists that grab nothing: no hand, or an open hand
EaseHandLists == { << >>, << HandAt(LeftAnchor, 80) >> }

\* both endpoints released anywhere in the canvas
EaseInit ==
    /\ hands = << >>
    /\ now = 0
    /\ leftEnd \in EaseStarts
    /\ rightEnd \in EaseStarts
    /\ leftGrabbed = FALSE
    /\ rightGrabbed = FALSE
    /\ leftHandId = Null
    /\ rightHandId = Null
    /\ pinchStates = << >>
    /\ handTips = << >>
    /\ stringState = StringState(leftEnd, rightEnd, leftGrabbed, rightGrabbed)
    /\ HomeRefsInit

\* the effect re-runs draw() on a new hands prop
EaseSetHands ==
    \E hs \in EaseHandLists :
        /\ hs # hands
        /\ now + EaseFrameTime <= EaseMaxTicks * EaseFrameTime
        /\ hands' = hs
        /\ now' = now + EaseFrameTime
        /\ draw(hs, now + EaseFrameTime)
        /\ UNCHANGED <<homeVars, audioVars, hookVars>>

\* requestAnimationFrame(draw)
EaseAnimationFrame ==
    /\ now + EaseFrameTime <= EaseMaxTicks * EaseFrameTime
    /\ hands' = hands
    /\ now' = now + EaseFrameTime
    /\ draw(hands, now + EaseFrameTime)
    /\ UNCHANGED <<homeVars, audioVars, hookVars>>

EaseNext == EaseSetHands \/ EaseAnimationFrame

EaseSpec == EaseInit /\ [][EaseNext]_vars

WithinEpsilon(end, anchor) == DistSq(end, anchor) <= Sq(EaseEpsilon)

\* the spring return of one endpoint over a tick that ends at time t
SpringReturn(e, eNext, anchor, t) ==
    (Idle(e) /\ Idle(eNext)) =>
        /\ t >= EaseTicks * EaseFrameTime => WithinEpsilon(eNext.end, anchor)
        /\ WithinEpsilon(e.end, anchor) => WithinEpsilon(eNext.end, anchor)

\* C12: with the easing factor 0.15 and any starting displacement within the
\* canvas, an endpoint that stays Idle is within epsilon (one pixel) of its
\* anchor after EaseTicks ticks, and once within epsilon it is within epsilon
\* after every later tick in which it stays Idle.
C12_SpringReturnConverges ==
    [][ /\ SpringReturn(Left, LeftNext, LeftAnchor, now')
        /\ SpringReturn(Right, RightNext, RightAnchor, now') ]_vars

\* an endpoint released in a corner of the canvas is still more than epsilon
\* from its anchor one tick before EaseTicks, and within epsilon at EaseTicks
C12_Witness ==
    /\ now = EaseTicks * EaseFrameTime
    /\ Idle(Left)
    /\ WithinEpsilon(leftEnd, LeftAnchor)
    /\ leftEnd # LeftAnchor
    /\ leftEnd.y > LeftAnchor.y

----------------------------------------------------------------------------
(* utils.ts: the control signals *)

\* the largest r in lo..hi with r * r <= n
RECURSIVE SqrtSearch(_, _, _)
SqrtSearch(n, lo, hi) ==
    IF lo = hi
    THEN lo
    ELSE LET mid == (lo + hi + 1) \div 2
         IN IF mid * mid <= n THEN SqrtSearch(n, mid, hi)
                              ELSE SqrtSearch(n, lo, mid - 1)

\* Math.hypot, rounded down to a hundredth of a pixel
distance(a, b) == SqrtSearch(DistSq(a, b), 0, Min(DistSq(a, b), 46340))

\* computeTension without its Math.min(1, ...)
computeTension_Unclamped(lEnd, rEnd, lAnchor, rAnchor, maxStretch) ==
    LET restLength == distance(lAnchor, rAnchor)
        currentLength == distance(lEnd, rEnd)
        stretch == Max(0, currentLength - restLength)
    IN Fin(Quot(stretch * One, Px(maxStretch)))

\* computeTension that measures the whole length, not the elongation
computeTension_FromZero(lEnd, rEnd, lAnchor, rAnchor, maxStretch) ==
    LET currentLength == distance(lEnd, rEnd)
        stretch == Max(0, currentLength)
    IN Fin(Min(One, Quot(stretch * One, Px(maxStretch))))

\* computeTension that counts a shortening of the string as well
computeTension_AnyChange(lEnd, rEnd, lAnchor, rAnchor, maxStretch) ==
    LET restLength == distance(lAnchor, rAnchor)
        currentLength == distance(lEnd, rEnd)
        stretch == Max(restLength - currentLength, currentLength - restLength)
    IN Fin(Min(One, Quot(stretch * One, Px(maxStretch))))

computeTension(lEnd, rEnd, lAnchor, rAnchor, maxStretch) ==
    LET restLength == distance(lAnchor, rAnchor)
        currentLength == distance(lEnd, rEnd)
        stretch == Max(0, currentLength - restLength)
    IN Fin(Min(One, Quot(stretch * One, Px(maxStretch))))

computeLeftStretch(lEnd, lAnchor, maxStretch) ==
    LET stretch == distance(lEnd, lAnchor)
    IN Fin(Min(One, Quot(stretch * One, Px(maxStretch))))

computeRightStretch(rEnd, rAnchor, maxStretch) ==
    LET stretch == distance(rEnd, rAnchor)
    IN Fin(Min(One, Quot(stretch * One, Px(maxStretch))))

\* Math.sin(Math.atan2(dy, dx)) is dy / hypot(dx, dy), and 0 for dx = dy = 0
computeStringAngle(lEnd, rEnd) ==
    LET dx == rEnd.x - lEnd.x
        dy == rEnd.y - lEnd.y
        normalized == IF dx = 0 /\ dy = 0 THEN 0
                      ELSE Quot(dy * One, distance(lEnd, rEnd))
    IN Fin(Max(-One, Min(One, normalized)))

\* deltaTime <= 0 is false for NaN, and a division by an infinity gives 0
computeTensionVelocity(currentTension, previousTens, deltaTime) ==
    IF deltaTime.k = "inf" /\ deltaTime.v < 0 THEN Fin(0)
    ELSE IF deltaTime.k = "fin" /\ deltaTime.v <= 0 THEN Fin(0)
    ELSE IF deltaTime.k = "nan" THEN NaN
    ELSE IF deltaTime.k = "inf" THEN Fin(0)
    ELSE Fin(Quot((currentTension.v - previousTens.v) * TimeScale, deltaTime.v))

computeStringControls(lEnd, rEnd, lAnchor, rAnchor, previousTens, deltaTime, lGrabbed, rGrabbed, maxStretch) ==
    LET tension == computeTension(lEnd, rEnd, lAnchor, rAnchor, maxStretch)
    IN StringControls(tension,
                      computeLeftStretch(lEnd, lAnchor, maxStretch),
                      computeRightStretch(rEnd, rAnchor, maxStretch),
                      computeStringAngle(lEnd, rEnd),
                      computeTensionVelocity(tension, previousTens, deltaTime),
                      lGrabbed, rGrabbed)

(* One call of computeStringControls(), on any arguments *)

Offset(p, dx, dy) == Point(p.x + Px(dx), p.y + Px(dy))

\* positions of the left endpoint: at rest, pulled outward, up, far up, inward
ControlLeftEnds ==
    { LeftAnchor, Offset(LeftAnchor, -30, 0), Offset(LeftAnchor, 0, -40),
      Offset(LeftAnchor, -10, -150), Offset(LeftAnchor, 40, 0) }

\* positions of the right endpoint: at rest, pulled outward, down, far down,
\* and on the left anchor
ControlRightEnds ==
    { RightAnchor, Offset(RightAnchor, 30, 0), Offset(RightAnchor, 0, 40),
      Offset(RightAnchor, 10, 150), LeftAnchor }

ControlStates ==
    { StringState(l, r, lg, rg) :
          l \in ControlLeftEnds, r \in ControlRightEnds,
          lg \in BOOLEAN, rg \in {FALSE} }
    \cup { StringState(LeftAnchor, Offset(RightAnchor, 30, 0), TRUE, TRUE) }

\* previousTension arguments: 0, 0.1, 0.5, 1
PreviousTensions == { Fin(0), Fin(One \div 10), Fin(One \div 2), Fin(One) }

\* deltaTime arguments: 1/60 s, 16 ms, 1 s, zero, negative and non-finite
DeltaTimes ==
    { Fin(TimeScale \div 60), Fin((16 * TimeScale) \div 1000), Fin(TimeScale),
      Fin(0), Fin(-(TimeScale \div 60)), NaN, PosInf, NegInf }

\* maxStretch arguments, in pixels (all > 0; 100 is the default)
MaxStretches == { 40, 100, 250 }

\* the arguments of the call
ControlsInit ==
    /\ hands = << >>
    /\ now = 0
    /\ leftEnd = LeftAnchor
    /\ rightEnd = RightAnchor
    /\ leftGrabbed = FALSE
    /\ rightGrabbed = FALSE
    /\ leftHandId = Null
    /\ rightHandId = Null
    /\ pinchStates = << >>
    /\ handTips = << >>
    /\ stringState \in ControlStates
    /\ previousTension \in PreviousTensions
    /\ args \in { Args(dt, ms, Fin(0), Fin(0)) : dt \in DeltaTimes, ms \in MaxStretches }
    /\ lastUpdateTime = 0
    /\ isPlaying = FALSE
    /\ currentConfig = audioConfig
    /\ controls = NoControls
    /\ synth = NoAudio
    /\ calls = << >>
    /\ HomeAudioInit
    /\ HandposeInit

\* the call
ComputeControls ==
    /\ controls' = computeStringControls(stringState.leftEnd, stringState.rightEnd,
                                         LeftAnchor, RightAnchor, previousTension,
                                         args.deltaTime, stringState.leftGrabbed,
                                         stringState.rightGrabbed, args.maxStretch)
    /\ UNCHANGED <<hands, now, leftEnd, rightEnd, leftGrabbed, rightGrabbed,
                   leftHandId, rightHandId, pinchStates, handTips, stringState,
                   previousTension, lastUpdateTime, isPlaying, currentConfig,
                   synth, calls, args>>
    /\ UNCHANGED <<audioVars, hookVars>>

ControlsSpec == ControlsInit /\ [][ComputeControls]_vars

----------------------------------------------------------------------------
(* C13 *)

\* a finite number within lo..hi
Within(f, lo, hi) == isFinite(f) /\ lo <= f.v /\ f.v <= hi

\* C13: for all endpoint positions and anchors and every maxStretch > 0,
\* computeStringControls returns tension, leftStretch and rightStretch in
\* [0,1] and angle in [-1,1].
C13_ControlsInRange ==
    /\ Within(controls.tension, 0, One)
    /\ Within(controls.leftStretch, 0, One)
    /\ Within(controls.rightStretch, 0, One)
    /\ Within(controls.angle, -One, One)

\* a string stretched by far more than maxStretch and tilted downward: the
\* tension and both stretches are cut to 1, the angle is strictly inside (0,1)
C13_Witness ==
    /\ stringState.leftEnd = Offset(LeftAnchor, -10, -150)
    /\ stringState.rightEnd = Offset(RightAnchor, 10, 150)
    /\ args.maxStretch = 40
    /\ controls.tension = Fin(One)
    /\ controls.leftStretch = Fin(One)
    /\ controls.rightStretch = Fin(One)
    /\ controls.angle.v > 0
    /\ controls.angle.v < One

----------------------------------------------------------------------------
(* C15 *)

\* velocity is (tension - previous) / deltaTime, up to the rounding of the
\* quotient, for a finite deltaTime > 0, and 0 for any other deltaTime
VelocityOf(tension, previous, deltaTime, velocity) ==
    IF isFinite(deltaTime) /\ deltaTime.v > 0
    THEN /\ isFinite(velocity)
         /\ velocity.v * deltaTime.v - (tension.v - previous.v) * TimeScale < deltaTime.v
         /\ (tension.v - previous.v) * TimeScale - velocity.v * deltaTime.v < deltaTime.v
    ELSE velocity = Fin(0)

\* C15: the tensionVelocity of a control frame is (tension - previousTension)
\* / deltaTime when deltaTime > 0, and exactly 0 when deltaTime is zero,
\* negative, NaN or infinite.
C15_TensionVelocity ==
    [][ VelocityOf(controls'.tension, previousTension, args'.deltaTime,
                   controls'.tensionVelocity) ]_vars

----------------------------------------------------------------------------
(* audioConfig.ts: the parameter mapping *)

\* r to the power n, for an integer n >= 0
RECURSIVE PowInt(_, _)
PowInt(r, n) == IF n = 0 THEN One ELSE (PowInt(r, n - 1) * r) \div One

\* the least r in lo..hi whose tenth power is at least x
RECURSIVE RootSearch(_, _, _)
RootSearch(x, lo, hi) ==
    IF lo = hi
    THEN lo
    ELSE LET mid == (lo + hi) \div 2
         IN IF PowInt(mid, 10) >= x THEN RootSearch(x, lo, mid)
                                    ELSE RootSearch(x, mid + 1, hi)

\* Math.pow(x, curve) for x in [0,1] and a curve exponent in tenths
MathPow(x, curve) ==
    (PowInt(x, curve \div 10) * PowInt(RootSearch(x, 0, One), curve % 10)) \div One

\* Math.max(lo, Math.min(hi, f)): NaN stays NaN, an infinity is cut
Clamp(f, lo, hi) ==
    IF isNaN(f) THEN NaN
    ELSE IF f.k = "inf" THEN Fin(IF f.v > 0 THEN hi ELSE lo)
    ELSE Fin(Max(lo, Min(hi, f.v)))

\* applyCurve that returns the clamped value whatever the curve
applyCurve_Linear(value, curve) == Clamp(value, 0, One)

applyCurve(value, curve) ==
    LET clamped == Clamp(value, 0, One)
    IN IF curve = 10 \/ isNaN(clamped) THEN clamped
       ELSE Fin(MathPow(clamped.v, curve))

\* MapRange that applies the curved value twice
MapRange_Overshoot(curved, range) ==
    IF isNaN(curved) THEN NaN
    ELSE Fin(range.min + Quot((2 * curved.v) * (range.max - range.min), One))

\* MapRange that runs from range.max down to range.min
MapRange_Falling(curved, range) ==
    IF isNaN(curved) THEN NaN
    ELSE Fin(range.max - Quot(curved.v * (range.max - range.min), One))

\* range.min + curved * (range.max - range.min)
MapRange(curved, range) ==
    IF isNaN(curved) THEN NaN
    ELSE Fin(range.min + Quot(curved.v * (range.max - range.min), One))

\* "Guard against division by zero, invalid canvas width, NaN, or Infinity"
normalizedX(midpointX, canvasWidth) ==
    LET safeCanvasWidth == IF ~isFinite(canvasWidth) \/ canvasWidth.v <= 0
                           THEN Px(1)
                           ELSE Max(Px(1), canvasWidth.v)
        safeMidpointX == IF ~isFinite(midpointX) THEN 0 ELSE midpointX.v
    IN Max(0, Min(One, Quot(safeMidpointX * One, safeCanvasWidth)))

\* hybridFrequency in which the tension adds nothing to the base frequency
hybridFrequency_NoHeadroom(tension, midpointX, canvasWidth, config) ==
    LET f == config.mappings.frequency
        tensionForFrequency == applyCurve(tension, config.curves.frequency)
        baseFrequencyMin == f.min
        baseFrequencyMax == f.min + Quot((f.max - f.min) * 75, 100)
        baseFrequency == baseFrequencyMin +
            Quot(normalizedX(midpointX, canvasWidth) * (baseFrequencyMax - baseFrequencyMin), One)
        minFrequency == Max(20, f.min)
        maxFrequency == Min(20000, f.max)
    IN IF isNaN(tensionForFrequency) THEN NaN
       ELSE Fin(Max(minFrequency, Min(maxFrequency, baseFrequency)))

\* unclampedFrequency whose base frequency spans the whole configured range
unclampedFrequency_FullRange(tension, midpointX, canvasWidth, config) ==
    LET f == config.mappings.frequency
        tensionForFrequency == applyCurve(tension, config.curves.frequency)
        baseFrequency == f.min +
            Quot(normalizedX(midpointX, canvasWidth) * (f.max - f.min), One)
        tensionFrequencyRange == f.max - (f.min + Quot((f.max - f.min) * 75, 100))
    IN IF isNaN(tensionForFrequency) THEN NaN
       ELSE Fin(baseFrequency + Quot(tensionForFrequency.v * tensionFrequencyRange, One))

\* the frequency of the hybrid mapping before it is clamped: "base frequency
\* from position, tension adds range"
unclampedFrequency(tension, midpointX, canvasWidth, config) ==
    LET f == config.mappings.frequency
        tensionForFrequency == applyCurve(tension, config.curves.frequency)
        baseFrequencyMin == f.min
        baseFrequencyMax == f.min + Quot((f.max - f.min) * 75, 100)
        baseFrequency == baseFrequencyMin +
            Quot(normalizedX(midpointX, canvasWidth) * (baseFrequencyMax - baseFrequencyMin), One)
        tensionFrequencyRange == f.max - baseFrequencyMax
    IN IF isNaN(tensionForFrequency) THEN NaN
       ELSE Fin(baseFrequency + Quot(tensionForFrequency.v * tensionFrequencyRange, One))

\* the frequency of the hybrid mapping, before its validation
hybridFrequency(tension, midpointX, canvasWidth, config) ==
    LET f == config.mappings.frequency
        frequency == unclampedFrequency(tension, midpointX, canvasWidth, config)
        minFrequency == Max(20, f.min)
        maxFrequency == Min(20000, f.max)
    IN IF isNaN(frequency) THEN NaN
       ELSE Fin(Max(minFrequency, Min(maxFrequency, frequency.v)))

\* "Final validation: ensure frequency is a valid number"
validFrequency(frequency) == ~isNaN(frequency) /\ isFinite(frequency) /\ frequency.v > 0

mappedFrequency(tension, midpointX, canvasWidth, config) ==
    LET frequency == hybridFrequency(tension, midpointX, canvasWidth, config)
    IN IF validFrequency(frequency) THEN frequency
       ELSE Fin(config.mappings.frequency.min)

\* writtenFrequency without the clamp to the audio range
writtenFrequency_Unclamped(frequency, config) ==
    IF validFrequency(frequency)
    THEN frequency
    ELSE Fin(config.mappings.frequency.min)

\* the value set on synth.frequency
writtenFrequency(frequency, config) ==
    IF validFrequency(frequency)
    THEN Clamp(frequency, 20, 20000)
    ELSE Fin(config.mappings.frequency.min)

\* modulationDepth mapped from the signed angle (no Math.abs)
modulationDepth_Signed(angle, range) ==
    Clamp(MapRange(angle, range), 0, 50 * One)

\* "Map angle to modulation depth", clamped to 0-50Hz
modulationDepth(angle, range) ==
    LET absAngle == IF isNaN(angle) THEN NaN
                    ELSE Fin(IF angle.v < 0 THEN -angle.v ELSE angle.v)
    IN Clamp(MapRange(absAngle, range), 0, 50 * One)

\* the parameter values updateAudio() leaves on the audio objects
updateAudio(ctl, audio, midpointX, canvasWidth, config) ==
    LET m == config.mappings
        c == config.curves
    IN [ created |-> audio.created,
         frequency |-> writtenFrequency(
                           mappedFrequency(ctl.tension, midpointX, canvasWidth, config),
                           config),
         volume |-> MapRange(applyCurve(ctl.tension, c.volume), m.volume),
         filterCutoff |-> Clamp(MapRange(applyCurve(ctl.tension, c.filterCutoff),
                                         m.filterCutoff), 20, 20000),
         distortion |-> MapRange(applyCurve(ctl.tension, c.distortion), m.distortion),
         reverbWet |-> MapRange(applyCurve(ctl.tension, c.reverb), m.reverb),
         modulationDepth |-> modulationDepth(ctl.angle, m.modulationDepth),
         pan |-> Fin(0) ]

\* the parameter values initAudio() leaves on the audio objects it creates
initAudio(config) ==
    [ created |-> TRUE,
      frequency |-> Fin(config.mappings.frequency.min),
      volume |-> Fin(0),
      filterCutoff |-> Fin(config.filter.frequency),
      distortion |-> Fin(0),
      reverbWet |-> Fin(0),
      modulationDepth |-> Fin(Quot(config.mappings.frequency.max * One, 10)),
      pan |-> Fin(0) ]

(* One call of updateAudio(), on any arguments *)

\* a configuration whose frequency and filter cutoff ranges are f, whose
\* modulation depth range is m, whose other ranges are the default ones, and
\* whose five curve exponents are curve
Config(f, m, curve) ==
    [ mappings |->
        [ frequency |-> f,
          filterCutoff |-> f,
          volume |-> audioConfig.mappings.volume,
          pan |-> audioConfig.mappings.pan,
          modulationDepth |-> m,
          distortion |-> audioConfig.mappings.distortion,
          reverb |-> audioConfig.mappings.reverb,
          pluckThreshold |-> audioConfig.mappings.pluckThreshold ],
      curves |->
        [ volume |-> curve, frequency |-> curve, filterCutoff |-> curve,
          distortion |-> curve, reverb |-> curve ],
      filter |-> audioConfig.filter ]

\* the default configuration with all its ranges turned over (min > max)
InvertedConfig(curve) ==
    [ Config(Range(880, 220), Range(10000, 0), curve) EXCEPT
          !.mappings.volume = Range(0, -30000),
          !.mappings.distortion = Range(800, 0),
          !.mappings.reverb = Range(500, 0) ]

\* frequency ranges, in Hz: the default one, one reaching below 20 and above
\* 20000, one below 20, one above 20000, one with a zero and one with a
\* negative minimum
FrequencyRanges ==
    { Range(220, 880), Range(10, 30000), Range(5, 10), Range(30000, 40000),
      Range(0, 880), Range(-5, 880) }

\* modulation depth ranges, in thousandths of a Hz: the default one, one
\* reaching above 50 Hz, one above 50 Hz, one below 0
ModulationRanges ==
    { Range(0, 10000), Range(0, 100000), Range(60000, 100000), Range(-5000, -1000) }

\* curve exponents, in tenths: 0.1, 0.5, 0.8, 1.0, 1.5, 2.0, 5.0
Curves == { 1, 5, 8, 10, 15, 20, 50 }

Configs ==
    { Config(f, m, curve) : f \in FrequencyRanges, m \in ModulationRanges,
                            curve \in {5, 10, 20} }
    \cup { Config(Range(220, 880), Range(0, 10000), curve) : curve \in Curves }
    \cup { InvertedConfig(curve) : curve \in {10, 20} }
    \cup { audioConfig }

\* tension arguments: 0, 0.01, 0.25, 0.5, 1, out of range, NaN
Tensions ==
    { Fin(0), Fin(One \div 100), Fin(One \div 4), Fin(One \div 2), Fin(One),
      Fin(One + One \div 2), NaN }

\* angle arguments
Angles == { Fin(-One), Fin(-(One \div 4)), Fin(0), Fin(One \div 2), Fin(One) }

\* midpointX arguments: the left edge, a quarter of a pixel, a quarter, the
\* middle and the right edge of the canvas, beyond both edges, NaN
MidpointXs ==
    { Fin(0), Fin(Px(1) \div 4), Fin(Px(Width) \div 4), Fin(Px(Width) \div 2),
      Fin(Px(Width)), Fin(-Px(10)), Fin(Px(Width) + Px(50)), NaN }

\* canvasWidth arguments: the width of the canvas, half a pixel, zero, NaN
CanvasWidths == { Fin(Px(Width)), Fin(Px(1) \div 2), Fin(0), NaN }

\* the arguments of the call, and the audio objects initAudio() created
UpdateAudioInit ==
    /\ hands = << >>
    /\ now = 0
    /\ leftEnd = LeftAnchor
    /\ rightEnd = RightAnchor
    /\ leftGrabbed = FALSE
    /\ rightGrabbed = FALSE
    /\ leftHandId = Null
    /\ rightHandId = Null
    /\ pinchStates = << >>
    /\ handTips = << >>
    /\ stringState = NoState
    /\ previousTension = Fin(0)
    /\ lastUpdateTime = 0
    /\ isPlaying = FALSE
    /\ currentConfig \in Configs
    /\ controls \in { StringControls(t, Fin(0), Fin(0), a, Fin(0), FALSE, FALSE) :
                          t \in Tensions, a \in Angles }
    /\ synth = initAudio(currentConfig)
    /\ calls = << >>
    /\ args \in { Args(Fin(0), 100, x, w) : x \in MidpointXs, w \in CanvasWidths }
    /\ HomeAudioInit
    /\ HandposeInit

\* the call
UpdateAudio ==
    /\ synth' = updateAudio(controls, synth, args.midpointX, args.canvasWidth,
                            currentConfig)
    /\ calls' = << "updateAudio" >>
    /\ UNCHANGED <<hands, now, leftEnd, rightEnd, leftGrabbed, rightGrabbed,
                   leftHandId, rightHandId, pinchStates, handTips, stringState,
                   previousTension, lastUpdateTime, isPlaying, currentConfig,
                   controls, args>>
    /\ UNCHANGED <<audioVars, hookVars>>

UpdateAudioSpec == UpdateAudioInit /\ [][UpdateAudio]_vars

----------------------------------------------------------------------------
(* C17 *)

\* updateAudio() was called with a tension in [0,1] and an angle in [-1,1]
MappedInRange ==
    /\ calls = << "updateAudio" >>
    /\ Within(controls.tension, 0, One)
    /\ Within(controls.angle, -One, One)

Ordered(range) == range.min <= range.max

\* every range of the configuration has min <= max
RangesOrdered(config) ==
    /\ Ordered(config.mappings.frequency)
    /\ Ordered(config.mappings.filterCutoff)
    /\ Ordered(config.mappings.volume)
    /\ Ordered(config.mappings.modulationDepth)
    /\ Ordered(config.mappings.distortion)
    /\ Ordered(config.mappings.reverb)

InRange(f, range) == Within(f, range.min, range.max)

\* f is within the part of the range that lies in lo..hi, and on the bound of
\* lo..hi next to the range when no part of it does
InClampedRange(f, range, lo, hi) ==
    IF range.max < lo THEN f = Fin(lo)
    ELSE IF range.min > hi THEN f = Fin(hi)
    ELSE Within(f, Max(lo, range.min), Min(hi, range.max))

\* C17 as stated: for every tension in [0,1], angle in [-1,1], midpoint
\* position and curve exponent in [0.1, 5.0], and every configuration with
\* min <= max, each of frequency, volume, filter cutoff, distortion, reverb
\* wet and modulation depth lies within its configured [min, max].
C17_OutputsWithinRange ==
    (MappedInRange /\ RangesOrdered(currentConfig)) =>
        /\ InRange(synth.frequency, currentConfig.mappings.frequency)
        /\ InRange(synth.volume, currentConfig.mappings.volume)
        /\ InRange(synth.filterCutoff, currentConfig.mappings.filterCutoff)
        /\ InRange(synth.distortion, currentConfig.mappings.distortion)
        /\ InRange(synth.reverbWet, currentConfig.mappings.reverb)
        /\ InRange(synth.modulationDepth, currentConfig.mappings.modulationDepth)

\* C17, amended: under the same conditions volume, distortion and reverb wet
\* lie within their configured [min, max]; frequency and filter cutoff lie
\* within the part of their [min, max] that is inside [20, 20000] Hz, and
\* modulation depth within the part of its [min, max] that is inside
\* [0, 50] Hz; when no part of the range is inside, the output is the bound
\* of [20, 20000] (of [0, 50]) next to the range.
C17_OutputsWithinClampedRange ==
    (MappedInRange /\ RangesOrdered(currentConfig)) =>
        /\ InClampedRange(synth.frequency, currentConfig.mappings.frequency, 20, 20000)
        /\ InRange(synth.volume, currentConfig.mappings.volume)
        /\ InClampedRange(synth.filterCutoff, currentConfig.mappings.filterCutoff, 20, 20000)
        /\ InRange(synth.distortion, currentConfig.mappings.distortion)
        /\ InRange(synth.reverbWet, currentConfig.mappings.reverb)
        /\ InClampedRange(synth.modulationDepth,
                          currentConfig.mappings.modulationDepth, 0, 50 * One)

\* a call at tension 0.25 and angle 1 with exponent 0.5 and ranges that reach
\* beyond the clamps: the modulation depth is cut to 50 Hz, the filter cutoff
\* and the volume are strictly inside their ranges
C17_Witness ==
    /\ MappedInRange
    /\ currentConfig = Config(Range(10, 30000), Range(0, 100000), 5)
    /\ controls.tension = Fin(One \div 4)
    /\ controls.angle = Fin(One)
    /\ synth.modulationDepth = Fin(50 * One)
    /\ synth.filterCutoff.v > 20 /\ synth.filterCutoff.v < 20000
    /\ synth.volume.v > currentConfig.mappings.volume.min
    /\ synth.volume.v < currentConfig.mappings.volume.max

----------------------------------------------------------------------------
(* C18 *)

\* updateAudio() was called at tension 1 with every curve exponent 1.0
FullTensionLinear ==
    /\ calls = << "updateAudio" >>
    /\ controls.tension = Fin(One)
    /\ currentConfig.curves.volume = 10
    /\ currentConfig.curves.frequency = 10
    /\ currentConfig.curves.filterCutoff = 10
    /\ currentConfig.curves.distortion = 10
    /\ currentConfig.curves.reverb = 10

FullTensionFrequency(f, nx) ==
    Ordered(f) =>
        /\ nx = One => synth.frequency = Clamp(Fin(f.max), 20, 20000)
        /\ synth.frequency.v <= Clamp(Fin(f.max), 20, 20000).v
        /\ (nx = 0 /\ f.min >= 20 /\ f.max <= 20000) =>
               synth.frequency = Fin(f.max - Quot((f.max - f.min) * 75, 100))

----------------------------------------------------------------------------
(* C20 *)

\* the frequency updateAudio() computed from its arguments, before validation
ComputedFrequency ==
    hybridFrequency(controls.tension, args.midpointX, args.canvasWidth, currentConfig)

\* C20: when the computed frequency is non-finite or <= 0, updateAudio
\* substitutes the configured minimum frequency and goes on to write the other
\* parameters, and the frequency value it writes to the synth is never NaN,
\* infinite or non-positive.
C20_NoInvalidFrequencyWritten ==
    calls = << "updateAudio" >> =>
        /\ validFrequency(synth.frequency)
        /\ ~validFrequency(ComputedFrequency) =>
               /\ synth.frequency = Fin(currentConfig.mappings.frequency.min)
               /\ synth.distortion =
                      MapRange(applyCurve(controls.tension, currentConfig.curves.distortion),
                               currentConfig.mappings.distortion)

----------------------------------------------------------------------------
(* The Home page: the audio update effect *)

(* Bounds of the Home specification *)

\* no state change or configuration change after HomeMaxTime ms
HomeMaxTime == 48

\* ms between two runs of the effect: the same millisecond, or one frame
HomeFrameTimes == { 0, 16 }

\* string states reported by the canvas: at rest; the right endpoint held
\* 0.5, 30 and 60 px outward; the same 30 px and 60 px after its release; the
\* left endpoint held 40 px inward (a shortened string); both endpoints held
\* 30 px below their anchors (a string moved, at its rest length)
HomeStates ==
    { StringState(LeftAnchor, RightAnchor, FALSE, FALSE),
      StringState(LeftAnchor, Point(RightAnchor.x + 50, RightAnchor.y), FALSE, TRUE),
      StringState(LeftAnchor, Offset(RightAnchor, 30, 0), FALSE, TRUE),
      StringState(LeftAnchor, Offset(RightAnchor, 60, 0), FALSE, TRUE),
      StringState(LeftAnchor, Offset(RightAnchor, 30, 0), FALSE, FALSE),
      StringState(LeftAnchor, Offset(RightAnchor, 60, 0), FALSE, FALSE),
      StringState(Offset(LeftAnchor, 40, 0), RightAnchor, TRUE, FALSE),
      StringState(Offset(LeftAnchor, 0, 30), Offset(RightAnchor, 0, 30), TRUE, TRUE) }

\* configurations chosen in the configuration dialog
HomeConfigs ==
    { audioConfig,
      Config(Range(10, 30000), Range(0, 10000), 10),
      Config(Range(30000, 40000), Range(0, 10000), 20),
      Config(Range(5, 10), Range(0, 10000), 10),
      InvertedConfig(10) }

\* "Pluck detection: check if velocity spike exceeds threshold"
isPluck(velocity, pluckThreshold) ==
    /\ ~isNaN(velocity)
    /\ (IF velocity.v < 0 THEN -velocity.v ELSE velocity.v) > pluckThreshold

\* retrigger that forgets the direction of the spike
retrigger_AnyDirection(ctl, config) ==
    isPluck(ctl.tensionVelocity, config.mappings.pluckThreshold)

\* "If pluck detected, retrigger attack for percussive effect"
retrigger(ctl, config) ==
    /\ isPluck(ctl.tensionVelocity, config.mappings.pluckThreshold)
    /\ ctl.tensionVelocity.v > 0

\* gate that looks at the tension only
gate_TensionOnly(ctl, st) ==
    ~isNaN(ctl.tension) /\ ctl.tension.v > One \div 100

\* the gate: meaningful tension and at least one side grabbed
gate(ctl, st) ==
    /\ ~isNaN(ctl.tension) /\ ctl.tension.v > One \div 100
    /\ (st.leftGrabbed \/ st.rightGrabbed)

\* the calls the effect makes on the audio objects
effectCalls(ctl, st, config, playing) ==
    IF gate(ctl, st)
    THEN (IF ~playing THEN << "triggerAttack" >> ELSE << >>)
         \o (IF retrigger(ctl, config)
             THEN << "triggerRelease", "triggerAttack" >> ELSE << >>)
         \o << "updateAudio" >>
    ELSE IF playing THEN << "triggerRelease" >> ELSE << >>

\* the audio update effect, run at time t on string state st with
\* configuration config, audio objects audio and playing flag playing
audioEffect(st, t, config, audio, playing) ==
    IF ~audio.created \/ st = NoState
    THEN /\ UNCHANGED <<previousTension, lastUpdateTime, controls, args>>
         /\ isPlaying' = playing
         /\ synth' = audio
         /\ calls' = << >>
    ELSE \E deltaTime \in { Fin((t - lastUpdateTime) * (TimeScale \div 1000)) } :
         \E ctl \in { computeStringControls(st.leftEnd, st.rightEnd, LeftAnchor,
                                            RightAnchor, previousTension, deltaTime,
                                            st.leftGrabbed, st.rightGrabbed, 100) } :
         \E midpointX \in { Fin((st.leftEnd.x + st.rightEnd.x) \div 2) } :
             /\ lastUpdateTime' = t
             /\ controls' = ctl
             /\ previousTension' = ctl.tension
             /\ args' = Args(deltaTime, 100, midpointX, Fin(Px(Width)))
             /\ calls' = effectCalls(ctl, st, config, playing)
             /\ isPlaying' = gate(ctl, st)
             /\ synth' = IF gate(ctl, st)
                         THEN updateAudio(ctl, audio, midpointX, Fin(Px(Width)), config)
                         ELSE audio

\* the Home page showing the canvas, a hand in view, before any string state
HomePageInit ==
    /\ hands = << HandAt(LeftAnchor, 80) >>
    /\ now = 0
    /\ leftEnd = LeftAnchor
    /\ rightEnd = RightAnchor
    /\ leftGrabbed = FALSE
    /\ rightGrabbed = FALSE
    /\ leftHandId = Null
    /\ rightHandId = Null
    /\ pinchStates = << >>
    /\ handTips = << >>
    /\ HomeInit

canvasVars == <<hands, leftEnd, rightEnd, leftGrabbed, rightGrabbed,
                leftHandId, rightHandId, pinchStates, handTips>>

\* onStateChange = setStringState, and the effect it re-runs
StateChange ==
    \E st \in HomeStates, dt \in HomeFrameTimes :
        /\ now + dt <= HomeMaxTime
        /\ now' = now + dt
        /\ stringState' = st
        /\ audioEffect(st, now + dt, currentConfig, synth, isPlaying)
        /\ UNCHANGED currentConfig
        /\ UNCHANGED canvasVars
        /\ UNCHANGED <<audioVars, hookVars>>

\* initializeAudio with hands in view, and the effect it re-runs
InitializeAudio ==
    \E dt \in HomeFrameTimes :
        /\ ~synth.created
        /\ Len(hands) > 0
        /\ now + dt <= HomeMaxTime
        /\ now' = now + dt
        /\ audioEffect(stringState, now + dt, currentConfig,
                       initAudio(currentConfig), isPlaying)
        /\ UNCHANGED <<stringState, currentConfig>>
        /\ UNCHANGED canvasVars
        /\ UNCHANGED <<audioVars, hookVars>>

\* handleConfigChange, and the effect it re-runs
ConfigChange ==
    \E newConfig \in HomeConfigs, dt \in HomeFrameTimes :
        /\ newConfig # currentConfig
        /\ now + dt <= HomeMaxTime
        /\ now' = now + dt
        /\ currentConfig' = newConfig
        /\ IF synth.created
           THEN audioEffect(stringState, now + dt, newConfig, initAudio(newConfig), FALSE)
           ELSE audioEffect(stringState, now + dt, newConfig, synth, isPlaying)
        /\ UNCHANGED stringState
        /\ UNCHANGED canvasVars
        /\ UNCHANGED <<audioVars, hookVars>>

HomeNext == StateChange \/ InitializeAudio \/ ConfigChange

HomeSpec == HomePageInit /\ [][HomeNext]_vars

----------------------------------------------------------------------------
(* Vocabulary of the Home properties *)

\* the effect has run on the current string state
EffectRan == synth.created /\ stringState # NoState

\* the calls of the last effect run include a pluck retrigger
PluckRaised ==
    \E i \in 1..(Len(calls) - 1) :
        calls[i] = "triggerRelease" /\ calls[i + 1] = "triggerAttack"

\* the last effect run called updateAudio()
AudioUpdated == Len(calls) > 0 /\ calls[Len(calls)] = "updateAudio"

----------------------------------------------------------------------------
(* C14 *)

\* both endpoints at their anchors, neither grabbed
AtRest(st) ==
    /\ st.leftEnd = LeftAnchor /\ st.rightEnd = RightAnchor
    /\ ~st.leftGrabbed /\ ~st.rightGrabbed

\* C14: when both endpoints sit at their anchors and neither is grabbed, the
\* control frame has tension 0, leftStretch 0, rightStretch 0 and both grabbed
\* flags false, and no pluck is raised.
C14_RestFrame ==
    (EffectRan /\ AtRest(stringState)) =>
        /\ controls.tension = Fin(0)
        /\ controls.leftStretch = Fin(0)
        /\ controls.rightStretch = Fin(0)
        /\ ~controls.isGrabbed.left /\ ~controls.isGrabbed.right
        /\ ~PluckRaised

\* the string back at rest one frame after it sounded: the tension fell to 0
\* and the note was released
C14_Witness ==
    /\ EffectRan /\ AtRest(stringState)
    /\ controls.tensionVelocity.v < 0
    /\ calls = << "triggerRelease" >>
    /\ ~isPlaying

----------------------------------------------------------------------------
(* C16 *)

\* |tensionVelocity| > pluckThreshold and tensionVelocity > 0
PositiveSpike ==
    /\ isFinite(controls.tensionVelocity)
    /\ controls.tensionVelocity.v > currentConfig.mappings.pluckThreshold
    /\ controls.tensionVelocity.v > 0

\* a jump of tension from 0.1 to 0.5 with deltaTime 1/60 s gives velocity 24,
\* a positive spike for pluckThreshold 0.1
JumpExample ==
    LET v == computeTensionVelocity(Fin(One \div 2), Fin(One \div 10),
                                    Fin(TimeScale \div 60))
    IN /\ v = Fin(24 * One)
       /\ isPluck(v, One \div 10)

\* C16 as stated: a pluck is raised on a tick if and only if
\* |tensionVelocity| > pluckThreshold and tensionVelocity > 0.
C16_PluckIffPositiveSpike ==
    EffectRan => (PluckRaised <=> PositiveSpike)

\* C16, amended: a pluck is raised on a tick if and only if the gate is open
\* (tension > 0.01 and an endpoint grabbed), |tensionVelocity| >
\* pluckThreshold and tensionVelocity > 0; a rapid decrease of tension never
\* raises a pluck, and a jump from 0.1 to 0.5 with deltaTime 1/60 s gives
\* velocity 24, a positive spike for pluckThreshold 0.1.
C16_PluckIffGatedPositiveSpike ==
    /\ JumpExample
    /\ EffectRan =>
           /\ PluckRaised <=> (gate(controls, stringState) /\ PositiveSpike)
           /\ controls.tensionVelocity.v < 0 => ~PluckRaised

\* a pluck on a sounding string: the tension rose from 0.3 to 0.6 in a frame
C16_Witness ==
    /\ EffectRan
    /\ controls.tension = Fin((6 * One) \div 10)
    /\ args.deltaTime = Fin((16 * TimeScale) \div 1000)
    /\ controls.tensionVelocity.v > 0
    /\ calls = << "triggerRelease", "triggerAttack", "updateAudio" >>
    /\ isPlaying

----------------------------------------------------------------------------
(* C19 *)

\* C19: the frequency handed to the synth by an audio update is within
\* [20, 20000] Hz whatever the configured frequency min and max are (min
\* below 20, max above 20000, min greater than max).
C19_FrequencyInAudioRange ==
    AudioUpdated => Within(synth.frequency, 20, 20000)

\* an audio update under a frequency range of 30000..40000 Hz writes 20000 Hz
C19_Witness ==
    /\ AudioUpdated
    /\ currentConfig.mappings.frequency = Range(30000, 40000)
    /\ synth.frequency = Fin(20000)

----------------------------------------------------------------------------
(* C21 *)

\* |angle| of the call, for a finite angle
AbsAngle == IF controls.angle.v < 0 THEN -controls.angle.v ELSE controls.angle.v

\* the modulation depth updateAudio() sets for the controls ctl, all other
\* arguments being those of the call
DepthFor(ctl) ==
    updateAudio(ctl, synth, args.midpointX, args.canvasWidth,
                currentConfig).modulationDepth

\* min + |angle| * (max - min), cut to [0, 50] Hz
ExpectedDepth ==
    LET r == currentConfig.mappings.modulationDepth
        raw == r.min + Quot(AbsAngle * (r.max - r.min), One)
    IN IF raw < 0 THEN 0 ELSE IF raw > 50 * One THEN 50 * One ELSE raw

\* C21: after updateAudio() on a finite angle, the modulation depth is
\* min + |angle| * (max - min) of the configured modulation range, cut to
\* [0, 50] Hz whatever the configuration; the angle of opposite sign gives the
\* same depth, and so does every other tension
C21_ModulationDepth ==
    calls = << "updateAudio" >> =>
        /\ isFinite(synth.modulationDepth)
        /\ synth.modulationDepth.v >= 0
        /\ synth.modulationDepth.v <= 50 * One
        /\ synth.modulationDepth.v = ExpectedDepth
        /\ DepthFor([controls EXCEPT !.angle = Fin(-controls.angle.v)])
               = synth.modulationDepth
        /\ \A t \in {Fin(0), Fin(One), NaN} :
               DepthFor([controls EXCEPT !.tension = t]) = synth.modulationDepth

\* updateAudio() ran on a string tilted fully one way (angle -1) under a
\* modulation range of 0..100 Hz: the depth is cut to 50 Hz
C21_Witness ==
    /\ calls = << "updateAudio" >>
    /\ controls.angle = Fin(-One)
    /\ controls.tension = Fin(One \div 2)
    /\ currentConfig.mappings.modulationDepth = Range(0, 100 * One)
    /\ synth.modulationDepth = Fin(50 * One)

----------------------------------------------------------------------------
(* C22 *)

\* a call of the given name is among the calls of an effect run
Called(cs, name) == \E i \in 1..Len(cs) : cs[i] = name

\* the tick's state opens the gate: an endpoint is grabbed and the tension is
\* above 0.01
GateOpen(st, ctl) ==
    /\ st.leftGrabbed \/ st.rightGrabbed
    /\ isFinite(ctl.tension)
    /\ ctl.tension.v > One \div 100

----------------------------------------------------------------------------
(* C23 *)

\* a hand whose index tip and thumb tip are both present
WellFormed(hand) == hand.index # NoPoint /\ hand.thumb # NoPoint

\* the entries of a handTips list that belong to well-formed hands of hs
WellFormedTips(tips, hs) ==
    SelectSeq(tips, LAMBDA t : WellFormed(hs[t.handId + 1]))

\* the step leaves endpoint e as the grab/release logic and the easing leave
\* it when the hands with a missing tip are taken out of the tick's hands
ProcessedWithoutMalformed(e, eNext, anchor, tips, hs) ==
    LET good == WellFormedTips(tips, hs)
        r == GrabRelease(PresenceCheck(e, TipIds(good)), good)
    IN eNext = Endpoint(Easing(r, anchor), r.grabbed, r.handId)

\* C23: a hand with a missing index tip or thumb tip takes no part in the
\* tick: both endpoints come out of the tick as they do without that hand
C23_MalformedHandExcluded ==
    [][ /\ ProcessedWithoutMalformed(Left, LeftNext, LeftAnchor, handTips', hands')
        /\ ProcessedWithoutMalformed(Right, RightNext, RightAnchor, handTips', hands')
      ]_vars

----------------------------------------------------------------------------
(* C24 *)

\* a tip of the list lies within px pixels of the point end
TipWithin(tips, end, px) ==
    \E i \in 1..Len(tips) : DistSq(tips[i], end) <= Sq(Px(px))

\* a tip of the list is effectively pinching within px pixels of the point end
PinchingTipWithin(tips, end, px) ==
    \E i \in 1..Len(tips) :
        tips[i].isPinched /\ DistSq(tips[i], end) <= Sq(Px(px))

PinchWithinRadiusGrabs(e, eNext, tips) ==
    Idle(e) =>
        /\ Grabbed(eNext) => PinchingTipWithin(tips, e.end, GRAB_RADIUS)
        /\ (Len(tips) = 1 /\ PinchingTipWithin(tips, e.end, GRAB_RADIUS)) =>
               /\ Grabbed(eNext)
               /\ eNext.handId = tips[1].handId
               /\ eNext.end = TipPoint(tips[1])

----------------------------------------------------------------------------
(* C25 *)

\* the step leaves endpoint e as its own grab/release logic and easing leave
\* it, given the tick's hand tips: nothing of the other endpoint enters
OwnOutcome(e, eNext, anchor, tips) ==
    LET r == GrabRelease(PresenceCheck(e, TipIds(tips)), tips)
    IN eNext = Endpoint(Easing(r, anchor), r.grabbed, r.handId)

\* two different hands of the tick are effectively pinching, one within
\* GRAB_RADIUS of the left endpoint and the other within GRAB_RADIUS of the
\* right endpoint
TwoHandsOnTwoEndpoints(tips) ==
    \E i, j \in 1..Len(tips) :
        /\ i # j
        /\ tips[i].isPinched /\ DistSq(tips[i], leftEnd) <= Sq(Px(GRAB_RADIUS))
        /\ tips[j].isPinched /\ DistSq(tips[j], rightEnd) <= Sq(Px(GRAB_RADIUS))

\* C25: in every tick each endpoint's position, grabbed flag and controlling
\* hand come out of its own grab/release step alone, and with two pinching
\* hands each within GRAB_RADIUS of a different endpoint both endpoints are
\* Grabbed after the tick, by different hands
C25_EndpointsIndependent ==
    [][ /\ OwnOutcome(Left, LeftNext, LeftAnchor, handTips')
        /\ OwnOutcome(Right, RightNext, RightAnchor, handTips')
        /\ TwoHandsOnTwoEndpoints(handTips') =>
               /\ Grabbed(LeftNext)
               /\ Grabbed(RightNext)
               /\ leftHandId' # rightHandId' ]_vars

----------------------------------------------------------------------------
(* C26 *)

\* per-side stretch values: none, half, full
Stretches == { Fin(0), Fin(One \div 2), Fin(One) }

\* the pan updateAudio() sets when the two stretches of the controls are l and
\* r, all other arguments being those of the call
PanFor(l, r) ==
    updateAudio([controls EXCEPT !.leftStretch = l, !.rightStretch = r], synth,
                args.midpointX, args.canvasWidth, currentConfig).pan

\* C26: the pan sent to the audio backend varies with leftStretch and
\* rightStretch: after updateAudio(), some other pair of stretch values would
\* have given another pan
C26_PanVariesWithStretch ==
    calls = << "updateAudio" >> =>
        \E l, r \in Stretches : PanFor(l, r) # synth.pan

----------------------------------------------------------------------------
(* C27 *)

\* the parameter values updateAudio() sets for the tension t, all other
\* arguments (configuration, midpoint, canvas width, angle) being those of the
\* call
OutputsFor(t) ==
    updateAudio([controls EXCEPT !.tension = t], synth, args.midpointX,
                args.canvasWidth, currentConfig)

\* none of the five tension-driven outputs of b is lower than in a
NotLower(a, b) ==
    /\ b.volume.v >= a.volume.v
    /\ b.frequency.v >= a.frequency.v
    /\ b.filterCutoff.v >= a.filterCutoff.v
    /\ b.distortion.v >= a.distortion.v
    /\ b.reverbWet.v >= a.reverbWet.v

\* the finite tensions above the tension of the call
HigherTensions ==
    { t \in Tensions : isFinite(t) /\ t.v > controls.tension.v }

\* C27: under a configuration whose ranges have min <= max (the curve
\* exponents are positive), after updateAudio() on a finite tension, every
\* higher tension with the same midpoint gives a volume, frequency, filter
\* cutoff, distortion amount and reverb wet level that are not lower
C27_MonotoneInTension ==
    (/\ calls = << "updateAudio" >>
     /\ isFinite(controls.tension)
     /\ RangesOrdered(currentConfig))
        => \A t \in HigherTensions : NotLower(synth, OutputsFor(t))

\* updateAudio() ran on tension 0.25 under the default configuration with the
\* midpoint in the middle of the canvas: full tension gives strictly more of
\* all five outputs
C27_Witness ==
    /\ calls = << "updateAudio" >>
    /\ controls.tension = Fin(One \div 4)
    /\ currentConfig = audioConfig
    /\ args.midpointX = Fin(Px(Width) \div 2)
    /\ args.canvasWidth = Fin(Px(Width))
    /\ OutputsFor(Fin(One)).volume.v > synth.volume.v
    /\ OutputsFor(Fin(One)).frequency.v > synth.frequency.v
    /\ OutputsFor(Fin(One)).filterCutoff.v > synth.filterCutoff.v
    /\ OutputsFor(Fin(One)).distortion.v > synth.distortion.v
    /\ OutputsFor(Fin(One)).reverbWet.v > synth.reverbWet.v

----------------------------------------------------------------------------
(* C28 *)

\* the frequency of the call before it is clamped
FrequencyBeforeClamp ==
    unclampedFrequency(controls.tension, args.midpointX, args.canvasWidth,
                       currentConfig)

\* the canvas width of the call, taken as 1 px when it is non-finite or <= 0
WidthOrOne ==
    IF ~isFinite(args.canvasWidth) \/ args.canvasWidth.v <= 0
    THEN Px(1) ELSE args.canvasWidth.v

\* the canvas width of the call, taken as 1 px when it is non-finite or < 1
WidthAtLeastOne ==
    IF ~isFinite(args.canvasWidth) \/ args.canvasWidth.v < Px(1)
    THEN Px(1) ELSE args.canvasWidth.v

\* midpointX / w cut to [0,1], and 0 for a non-finite midpointX
PositionShare(w) ==
    IF ~isFinite(args.midpointX) THEN 0
    ELSE Max(0, Min(One, Quot(args.midpointX.v * One, w)))

\* min + nx * 0.75 * (max - min) + curve(tension) * 0.25 * (max - min)
HybridPitch(nx) ==
    LET f == currentConfig.mappings.frequency
        curved == applyCurve(controls.tension, currentConfig.curves.frequency).v
    IN f.min + Quot(Quot(nx * (f.max - f.min), One) * 75, 100)
             + Quot(Quot(curved * (f.max - f.min), One) * 25, 100)

\* equal up to the rounding of the quotients of the two terms (at most 2 Hz)
Near(a, b) == a - b <= 2 /\ b - a <= 2

\* position alone (tension 0) does not move the pitch above
\* min + 0.75 * (max - min), and the pitch does not exceed the configured max
WithinHeadroom ==
    LET f == currentConfig.mappings.frequency
    IN /\ unclampedFrequency(Fin(0), args.midpointX, args.canvasWidth,
                             currentConfig).v
              <= f.min + Quot((f.max - f.min) * 75, 100)
       /\ FrequencyBeforeClamp.v <= f.max

\* updateAudio() was called with a finite tension
PitchMapped == calls = << "updateAudio" >> /\ isFinite(controls.tension)

\* C28 as stated: before clamping, frequency = min + normalizedX * 0.75 *
\* (max - min) + curve(tension) * 0.25 * (max - min), normalizedX being
\* midpointX / canvasWidth cut to [0,1] (0 for a non-finite midpointX, the
\* width taken as 1 when non-finite or <= 0); position alone never moves the
\* pitch above min + 0.75 * (max - min) and the result never exceeds max
C28_HybridPitch ==
    PitchMapped =>
        /\ Near(FrequencyBeforeClamp.v, HybridPitch(PositionShare(WidthOrOne)))
        /\ WithinHeadroom

\* C28, amended: the same formula with the width taken as 1 whenever it is
\* non-finite or below 1; for a frequency range with min <= max, position
\* alone never moves the pitch above min + 0.75 * (max - min) and the result
\* before clamping never exceeds max
C28_HybridPitchWidthAtLeastOne ==
    PitchMapped =>
        /\ Near(FrequencyBeforeClamp.v, HybridPitch(PositionShare(WidthAtLeastOne)))
        /\ Ordered(currentConfig.mappings.frequency) => WithinHeadroom

\* a call with the midpoint a quarter of a pixel from the left edge of a
\* canvas half a pixel wide, at tension 0.5 under the default configuration:
\* normalizedX is 0.25 and the frequency 220 + 123 + 82 Hz
C28_Witness ==
    /\ PitchMapped
    /\ currentConfig = audioConfig
    /\ controls.tension = Fin(One \div 2)
    /\ args.midpointX = Fin(Px(1) \div 4)
    /\ args.canvasWidth = Fin(Px(1) \div 2)
    /\ FrequencyBeforeClamp = Fin(425)
    /\ synth.frequency = Fin(425)

----------------------------------------------------------------------------
(* C29 *)

\* the string of the state is not longer than at rest
NotElongated(st) ==
    DistSq(st.leftEnd, st.rightEnd) <= DistSq(LeftAnchor, RightAnchor)

----------------------------------------------------------------------------
(* C30 *)

\* the grab/release decision of endpoint e was taken on the tip: a pinching
\* tip within GRAB_RADIUS grabs or keeps the endpoint and puts it on the tip;
\* otherwise an endpoint that is not held stays Idle, and a held one is
\* released when the tip is not pinching or beyond GRAB_RADIUS +
\* RELEASE_HYSTERESIS, and follows the tip if not
DecidedOn(e, eNext, tip, tips) ==
    LET held == e.grabbed /\ e.handId \in TipIds(tips)
        grabs == tip.isPinched /\ DistSq(tip, e.end) <= Sq(Px(GRAB_RADIUS))
        lost == \/ ~tip.isPinched
                \/ DistSq(tip, e.end) > Sq(Px(GRAB_RADIUS + RELEASE_HYSTERESIS))
    IN /\ grabs =>
              /\ eNext.grabbed
              /\ eNext.end = TipPoint(tip)
              /\ eNext.handId = IF held THEN e.handId ELSE tip.handId
       /\ (~grabs /\ ~held) => Idle(eNext)
       /\ (~grabs /\ held /\ lost) => Idle(eNext)
       /\ (~grabs /\ held /\ ~lost) =>
              /\ eNext.grabbed
              /\ eNext.end = TipPoint(tip)
              /\ eNext.handId = e.handId

\* tips i and j, i before j, are both the closest to the point end, and no
\* tip before i is as close
FirstOfTie(tips, end, i, j) ==
    /\ i < j
    /\ DistSq(tips[i], end) = DistSq(tips[j], end)
    /\ \A k \in 1..Len(tips) : DistSq(tips[k], end) >= DistSq(tips[i], end)
    /\ \A k \in 1..(i - 1) : DistSq(tips[k], end) > DistSq(tips[i], end)

TieDecidedByFirst(e, eNext, tips) ==
    \A i, j \in 1..Len(tips) :
        FirstOfTie(tips, e.end, i, j) => DecidedOn(e, eNext, tips[i], tips)

\* C30: when two or more observed hands are the closest to an endpoint at
\* exactly the same distance, the grab/release decision of that endpoint is
\* the one taken on the hand that comes first in the tick's hand list
C30_TieFirstHandWins ==
    [][ /\ TieDecidedByFirst(Left, LeftNext, handTips')
        /\ TieDecidedByFirst(Right, RightNext, handTips') ]_vars

\* after the first tick: two pinching hands with their index tips on the left
\* endpoint, which is Grabbed by the first of them
C30_Witness ==
    /\ now \in FrameTimes
    /\ Len(handTips) = 2
    /\ TipPoint(handTips[1]) = LeftAnchor
    /\ TipPoint(handTips[2]) = LeftAnchor
    /\ handTips[1].isPinched /\ handTips[2].isPinched
    /\ Grabbed(Left)
    /\ leftHandId = handTips[1].handId
    /\ leftHandId # handTips[2].handId

----------------------------------------------------------------------------
(* C31 *)

\* the ids of the hands of hs that have a usable index tip
ObservedIds(hs) == { i - 1 : i \in { j \in 1..Len(hs) : hs[j].index # NoPoint } }

\* the record of a hand after the tick of its first observation: created not
\* pinching and without release time, it is pinching only below
\* PINCH_THRESHOLD and has no release time
FreshRecord(hand, record) ==
    /\ record.releaseTime = Null
    /\ record.state <=> (/\ hand.thumb # NoPoint
                         /\ PinchDistSq(hand) < Sq(Px(PINCH_THRESHOLD)))

\* C31: after every tick the hand ids that have a pinch record are those of
\* the hands observed with a usable index tip in that tick, and a hand that
\* had no record before the tick (first observed, or back after an absence)
\* starts from a record that is not pinching and has no release time
C31_PinchRecordLifecycle ==
    [][ /\ DOMAIN pinchStates' = ObservedIds(hands')
        /\ \A id \in ObservedIds(hands') \ DOMAIN pinchStates :
               FreshRecord(hands'[id + 1], pinchStates'[id]) ]_vars

\* after a later tick: two hands, the first without index tip and without
\* record, the second with its thumb 50 px from its index tip, not pinching
\* and without release time
C31_Witness ==
    /\ now > 75
    /\ Len(hands) = 2
    /\ hands[1].index = NoPoint
    /\ hands[2] = HandAt(LeftAnchor, 50)
    /\ DOMAIN pinchStates = {1}
    /\ pinchStates[1] = [state |-> FALSE, releaseTime |-> Null]

----------------------------------------------------------------------------
(* C32 *)

\* the release time of a record, from the record before the tick to the
\* record after it at time t
ReleaseTimeKept(before, after, t) ==
    /\ (before.state /\ ~after.state) => after.releaseTime = t
    /\ (~before.state /\ ~after.state) => after.releaseTime = before.releaseTime
    /\ after.state => after.releaseTime = Null

\* C32: the release time of a hand is set to the current time on the tick its
\* raw pinch goes from true to false, is left as it is on the later ticks on
\* which the raw pinch stays false, and is cleared on every tick on which the
\* raw pinch is true; so a record that is pinching has no release time
C32_ReleaseTimeBookkeeping ==
    [][ \A id \in DOMAIN pinchStates' :
            /\ ReleaseTimeKept(PinchData(id), pinchStates'[id], now')
            /\ pinchStates'[id].state => pinchStates'[id].releaseTime = Null ]_vars

\* a hand that is not pinching two ticks after the tick that recorded its
\* release time
C32_Witness ==
    \E id \in DOMAIN pinchStates :
        /\ ~pinchStates[id].state
        /\ pinchStates[id].releaseTime # Null
        /\ now - pinchStates[id].releaseTime >= 150

----------------------------------------------------------------------------
(* C33 *)

\* a Grabbed endpoint sits on the tip of the hand recorded as its controller
OnControllerTip(e, tips) ==
    e.grabbed =>
        /\ e.handId \in TipIds(tips)
        /\ e.end = TipPoint(TipOf(tips, e.handId))

\* C33: at the end of every tick in which an endpoint is Grabbed, its
\* position is the current tip of the hand whose id is stored as its
\* controlling hand id
C33_GrabbedOnControllerTip ==
    /\ OnControllerTip(Left, handTips)
    /\ OnControllerTip(Right, handTips)

----------------------------------------------------------------------------
(* C34 *)

\* on a tick that takes endpoint e from Grabbed to Idle, the endpoint is
\* eased from the position it had before the tick, and the state reported to
\* the consumer carries that position with grabbed = false
ReleaseTick(e, eNext, anchor, reportedEnd, reportedGrabbed) ==
    (e.grabbed /\ ~eNext.grabbed) =>
        /\ Idle(eNext)
        /\ EasedBy15(e.end.x, eNext.end.x, anchor.x)
        /\ EasedBy15(e.end.y, eNext.end.y, anchor.y)
        /\ reportedEnd = eNext.end
        /\ ~reportedGrabbed

\* C34: on the tick an endpoint goes from Grabbed to Idle it is not moved to
\* a hand's tip: the easing step is applied in that tick to the position it
\* had at the end of the previous tick, and the state reported for the tick
\* carries grabbed = false together with the eased position
C34_ReleaseTick ==
    [][ /\ ReleaseTick(Left, LeftNext, LeftAnchor,
                       stringState'.leftEnd, stringState'.leftGrabbed)
        /\ ReleaseTick(Right, RightNext, RightAnchor,
                       stringState'.rightEnd, stringState'.rightGrabbed) ]_vars

\* the tick that released the left endpoint from (18, 24) px off its anchor,
\* the closest hand, open, being somewhere else: the endpoint is one easing
\* step nearer to the anchor and is reported so, not grabbed
C34_Witness ==
    /\ Len(handTips) > 0
    /\ ~handTips[1].isPinched
    /\ Idle(Left)
    /\ leftEnd = Point(LeftAnchor.x + 1530, LeftAnchor.y + 2040)
    /\ TipPoint(handTips[1]) # leftEnd
    /\ stringState.leftEnd = leftEnd
    /\ ~stringState.leftGrabbed

----------------------------------------------------------------------------
(* useHandposeMediaPipe *)

\* animation frames requested by the hook in one run
MaxFrames == 6

\* HTMLMediaElement.HAVE_ENOUGH_DATA
HAVE_ENOUGH_DATA == 4

\* `video.readyState >= 2 && video.videoWidth > 0 && video.videoHeight > 0`:
\* the video has its dimensions from readyState 1 (HAVE_METADATA) on
frameReady == readyState >= 2

\* animationFrameRef.current = requestAnimationFrame(processFrame)
requestProcessFrame ==
    /\ frameId' = frameId + 1
    /\ scheduled' = scheduled \cup { frameId + 1 }
    /\ animationFrameRef' = frameId + 1

\* initMediaPipeHands(): creates the tracker and starts the frame loop
initMediaPipeHands ==
    IF isInitialized
    THEN UNCHANGED <<isInitialized, handsRef, closed, animationFrameRef,
                     scheduled, frameId>>
    ELSE /\ handsRef' = TRUE
         /\ closed' = FALSE
         /\ requestProcessFrame
         /\ isInitialized' = TRUE

hookOuterVars == <<hands, now, leftEnd, rightEnd, leftGrabbed, rightGrabbed,
                   leftHandId, rightHandId, pinchStates, handTips, stringState,
                   homeVars, audioVars>>

\* the effect of the hook: starts the tracker, or waits for the video
Mount ==
    /\ mounted = "no"
    /\ mounted' = "yes"
    /\ IF isInitialized
       THEN UNCHANGED <<listener, isInitialized, handsRef, closed,
                        animationFrameRef, scheduled, frameId>>
       ELSE IF readyState >= 2
       THEN initMediaPipeHands /\ UNCHANGED listener
       ELSE /\ listener' = TRUE
            /\ UNCHANGED <<isInitialized, handsRef, closed, animationFrameRef,
                           scheduled, frameId>>
    /\ UNCHANGED <<readyState, sending, sent>>
    /\ UNCHANGED hookOuterVars

\* the video element loads; reaching HAVE_METADATA fires loadedmetadata,
\* whose listener, registered with `once`, is initMediaPipeHands
VideoLoads ==
    /\ readyState < HAVE_ENOUGH_DATA
    /\ frameId < MaxFrames
    /\ readyState' = readyState + 1
    /\ IF readyState = 0 /\ listener
       THEN initMediaPipeHands /\ listener' = FALSE
       ELSE UNCHANGED <<listener, isInitialized, handsRef, closed,
                        animationFrameRef, scheduled, frameId>>
    /\ UNCHANGED <<mounted, sending, sent>>
    /\ UNCHANGED hookOuterVars

\* a requested animation frame runs processFrame up to its await, or to
\* its end when the video has no frame yet
ProcessFrame ==
    \E id \in scheduled :
        /\ frameId < MaxFrames
        /\ IF frameReady
           THEN /\ sending' = TRUE
                /\ sent' = sent + 1
                /\ scheduled' = scheduled \ { id }
                /\ UNCHANGED <<animationFrameRef, frameId>>
           ELSE /\ frameId' = frameId + 1
                /\ scheduled' = (scheduled \ { id }) \cup { frameId + 1 }
                /\ animationFrameRef' = frameId + 1
                /\ UNCHANGED <<sending, sent>>
        /\ UNCHANGED <<mounted, readyState, listener, isInitialized, handsRef, closed>>
        /\ UNCHANGED hookOuterVars

\* `await hands.send(...)` returns: processFrame requests the next frame
SendResolves ==
    /\ sending
    /\ frameId < MaxFrames
    /\ sending' = FALSE
    /\ requestProcessFrame
    /\ UNCHANGED <<mounted, readyState, listener, isInitialized, handsRef, closed, sent>>
    /\ UNCHANGED hookOuterVars

\* `await hands.send(...)` throws, which a closed tracker may do:
\* processFrame ends without requesting a frame
SendRejects ==
    /\ sending
    /\ closed
    /\ sending' = FALSE
    /\ UNCHANGED <<mounted, readyState, listener, isInitialized, handsRef, closed,
                   animationFrameRef, scheduled, frameId, sent>>
    /\ UNCHANGED hookOuterVars

\* the cleanup of the effect
Cleanup ==
    /\ mounted = "yes"
    /\ mounted' = "cleaned"
    /\ listener' = FALSE
    /\ scheduled' = IF animationFrameRef # Null
                    THEN scheduled \ { animationFrameRef } ELSE scheduled
    /\ animationFrameRef' = Null
    /\ closed' = (closed \/ handsRef)
    /\ handsRef' = FALSE
    /\ isInitialized' = FALSE
    /\ UNCHANGED <<readyState, sending, frameId, sent>>
    /\ UNCHANGED hookOuterVars

HandposeNext ==
    Mount \/ VideoLoads \/ ProcessFrame \/ SendResolves \/ SendRejects \/ Cleanup

HandposeSpec == Init /\ [][HandposeNext]_vars

----------------------------------------------------------------------------
(* C39 *)

\* C39: after the cleanup of the hand-tracking hook has run, no further
\* video frame is sent to the tracker and no new animation frame is
\* requested, also when the cleanup runs while a frame send is awaited
C39_NoFrameAfterCleanup ==
    [][ mounted = "cleaned" => (sent' = sent /\ frameId' = frameId) ]_vars

----------------------------------------------------------------------------
(* The Home page: initialisation, reconfiguration and failing audio calls *)

(* Bounds *)

\* initializeAudio() runs inside their awaits at one time
MaxAwaiting == 2

\* audio object chains created in one run
MaxChains == 3

\* runs of the audio update effect in one run
AudioMaxTicks == 3

\* ms between two runs of the effect: one frame
AudioFrameTime == 16

\* hand lists delivered by the tracker
AudioHandLists == { << >>, << HandAt(LeftAnchor, 80) >> }

\* string states reported by the canvas: at rest; the right endpoint held 30
\* and 60 px outward; the same 30 px after its release
AudioStates ==
    { StringState(LeftAnchor, RightAnchor, FALSE, FALSE),
      StringState(LeftAnchor, Offset(RightAnchor, 30, 0), FALSE, TRUE),
      StringState(LeftAnchor, Offset(RightAnchor, 60, 0), FALSE, TRUE),
      StringState(LeftAnchor, Offset(RightAnchor, 30, 0), FALSE, FALSE) }

\* configurations chosen in the configuration dialog
AudioConfigs == { audioConfig, Config(Range(10, 30000), Range(0, 10000), 10) }

\* the calls on the audio backend that can throw: in the effect, the first
\* attack, the release and the attack of the pluck retrigger, and the release;
\* the release of handleConfigChange; initAudio()
EffectThrowPoints == { "attack", "retriggerRelease", "retriggerAttack", "release" }

ThrowPoints == EffectThrowPoints \cup { "configRelease", "initAudio" }

\* audio objects as initAudio() returns them.  sounding: the last note call
\* that returned was an attack; outOfTurn: some note call that returned was an
\* attack after an attack, or a release not after an attack
NewChain == [disposed |-> FALSE, sounding |-> FALSE, outOfTurn |-> FALSE]

NoteCall(call, ok) == [call |-> call, ok |-> ok]

\* the note calls the effect makes, each with whether it returns, when the
\* calls at the points in throws throw
noteCalls(ctl, st, config, playing, throws) ==
    IF gate(ctl, st)
    THEN (IF ~playing
          THEN << NoteCall("triggerAttack", "attack" \notin throws) >>
          ELSE << >>)
         \o (IF ~retrigger(ctl, config) THEN << >>
             ELSE IF "retriggerRelease" \in throws
             THEN << NoteCall("triggerRelease", FALSE) >>
             ELSE << NoteCall("triggerRelease", TRUE),
                     NoteCall("triggerAttack", "retriggerAttack" \notin throws) >>)
    ELSE IF playing
    THEN << NoteCall("triggerRelease", "release" \notin throws) >>
    ELSE << >>

\* isPlayingRef.current after the effect
playingAfter(ctl, st, playing, throws) ==
    IF gate(ctl, st)
    THEN playing \/ "attack" \notin throws
    ELSE playing /\ "release" \in throws

RECURSIVE afterNoteCalls(_, _)
\* the audio objects chain after the note calls evs
afterNoteCalls(chain, evs) ==
    IF evs = << >> THEN chain
    ELSE afterNoteCalls(
             IF ~Head(evs).ok THEN chain
             ELSE IF Head(evs).call = "triggerAttack"
             THEN [chain EXCEPT !.sounding = TRUE,
                                !.outOfTurn = @ \/ chain.sounding]
             ELSE [chain EXCEPT !.sounding = FALSE,
                                !.outOfTurn = @ \/ ~chain.sounding],
             Tail(evs))

CallNames(evs) == [ i \in 1..Len(evs) |-> evs[i].call ]

Threw(ev) == ~ev.ok

\* the audio update effect, run at time t on string state st with
\* configuration config, audioRef.current = ref among the chains chs, whose
\* parameter values are values, and playing flag playing
audioUpdate(st, t, config, initialized, ref, chs, values, playing, throws) ==
    IF ~initialized \/ ref = Null \/ st = NoState
    THEN /\ UNCHANGED <<previousTension, lastUpdateTime, controls, args>>
         /\ isPlaying' = playing
         /\ synth' = values
         /\ chains' = chs
         /\ calls' = << >>
         /\ thrown' = << >>
         /\ calledOn' = Null
    ELSE \E deltaTime \in { Fin((t - lastUpdateTime) * (TimeScale \div 1000)) } :
         \E ctl \in { computeStringControls(st.leftEnd, st.rightEnd, LeftAnchor,
                                            RightAnchor, previousTension, deltaTime,
                                            st.leftGrabbed, st.rightGrabbed, 100) } :
         \E midpointX \in { Fin((st.leftEnd.x + st.rightEnd.x) \div 2) } :
         \E evs \in { noteCalls(ctl, st, config, playing, throws) } :
             /\ lastUpdateTime' = t
             /\ controls' = ctl
             /\ previousTension' = ctl.tension
             /\ args' = Args(deltaTime, 100, midpointX, Fin(Px(Width)))
             /\ calls' = CallNames(evs)
                         \o (IF gate(ctl, st) THEN << "updateAudio" >> ELSE << >>)
             /\ thrown' = CallNames(SelectSeq(evs, Threw))
             /\ calledOn' = IF calls' = << >> THEN Null ELSE ref
             /\ isPlaying' = playingAfter(ctl, st, playing, throws)
             /\ chains' = [chs EXCEPT ![ref] = afterNoteCalls(@, evs)]
             /\ synth' = IF gate(ctl, st)
                         THEN updateAudio(ctl, values, midpointX, Fin(Px(Width)), config)
                         ELSE values

audioOuterVars == <<leftEnd, rightEnd, leftGrabbed, rightGrabbed, leftHandId,
                    rightHandId, pinchStates, handTips, hookVars>>

\* the initializeAudio effect: a run that passes the guards enters its awaits
initializeAudioStarts(hs, initialized, config) ==
    IF ~initialized /\ Len(hs) > 0
    THEN Append(awaiting, config)
    ELSE awaiting

\* the tracker delivers a changed hand list: the initializeAudio effect re-runs
HandsChange ==
    \E hs \in AudioHandLists :
        /\ hs # hands
        /\ Len(awaiting) < MaxAwaiting
        /\ hands' = hs
        /\ awaiting' = initializeAudioStarts(hs, audioInitialized, currentConfig)
        /\ UNCHANGED <<now, stringState, homeVars, audioInitialized, audioRef,
                       chains, thrown, calledOn>>
        /\ UNCHANGED audioOuterVars

\* the awaits of the oldest initializeAudio() run return: it calls initAudio()
\* on the configuration of its render, stores the audio objects and sets
\* audioInitialized, whose change re-runs the audio update effect
InitializeAudioResumes ==
    \E dt \in { AudioFrameTime } :
    \E throws \in SUBSET (EffectThrowPoints \cup { "initAudio" }) :
        /\ awaiting # << >>
        /\ Len(chains) < MaxChains
        /\ now + dt <= AudioMaxTicks * AudioFrameTime
        /\ awaiting' = Tail(awaiting)
        /\ IF "initAudio" \in throws
           THEN UNCHANGED <<now, homeVars, audioInitialized, audioRef, chains,
                            thrown, calledOn>>
           ELSE /\ audioRef' = Len(chains) + 1
                /\ audioInitialized' = TRUE
                /\ IF audioInitialized
                   THEN /\ chains' = Append(chains, NewChain)
                        /\ synth' = initAudio(Head(awaiting))
                        /\ UNCHANGED <<now, previousTension, lastUpdateTime,
                                       isPlaying, controls, calls, args,
                                       thrown, calledOn>>
                   ELSE /\ now' = now + dt
                        /\ audioUpdate(stringState, now + dt, currentConfig, TRUE,
                                       Len(chains) + 1, Append(chains, NewChain),
                                       initAudio(Head(awaiting)), isPlaying, throws)
                /\ UNCHANGED currentConfig
        /\ UNCHANGED <<hands, stringState>>
        /\ UNCHANGED audioOuterVars

\* onStateChange = setStringState, and the audio update effect it re-runs
SetStringState ==
    \E st \in AudioStates, dt \in { AudioFrameTime } :
    \E throws \in SUBSET EffectThrowPoints :
        /\ now + dt <= AudioMaxTicks * AudioFrameTime
        /\ now' = now + dt
        /\ stringState' = st
        /\ audioUpdate(st, now + dt, currentConfig, audioInitialized, audioRef,
                       chains, synth, isPlaying, throws)
        /\ UNCHANGED <<hands, currentConfig, audioInitialized, audioRef, awaiting>>
        /\ UNCHANGED audioOuterVars

\* the audio objects audioRef.current points at after handleConfigChange
\* released the playing note: a release that throws ends the handler
released(chs, ref, playing, throws) ==
    IF playing /\ "configRelease" \notin throws
    THEN [chs EXCEPT ![ref] = afterNoteCalls(@, << NoteCall("triggerRelease", TRUE) >>)]
    ELSE chs

\* handleConfigChange, and the two effects the new configuration re-runs
HandleConfigChange ==
    \E newConfig \in AudioConfigs, dt \in { AudioFrameTime } :
    \E throws \in SUBSET ThrowPoints :
        /\ newConfig # currentConfig
        /\ Len(chains) < MaxChains
        /\ Len(awaiting) < MaxAwaiting
        /\ now + dt <= AudioMaxTicks * AudioFrameTime
        /\ now' = now + dt
        /\ currentConfig' = newConfig
        /\ awaiting' = initializeAudioStarts(hands, audioInitialized, newConfig)
        /\ IF ~audioInitialized \/ audioRef = Null
                \/ (isPlaying /\ "configRelease" \in throws)
           THEN /\ audioUpdate(stringState, now + dt, newConfig, audioInitialized,
                               audioRef, chains, synth, isPlaying, throws)
                /\ UNCHANGED audioRef
           ELSE \E old \in { [released(chains, audioRef, isPlaying, throws)
                                 EXCEPT ![audioRef].disposed = TRUE] } :
                IF "initAudio" \in throws
                THEN /\ audioUpdate(stringState, now + dt, newConfig, TRUE,
                                    audioRef, old, synth, FALSE, throws)
                     /\ UNCHANGED audioRef
                ELSE /\ audioUpdate(stringState, now + dt, newConfig, TRUE,
                                    Len(chains) + 1, Append(old, NewChain),
                                    initAudio(newConfig), FALSE, throws)
                     /\ audioRef' = Len(chains) + 1
        /\ UNCHANGED <<hands, stringState, audioInitialized>>
        /\ UNCHANGED audioOuterVars

AudioNext ==
    HandsChange \/ InitializeAudioResumes \/ SetStringState \/ HandleConfigChange

AudioSpec == Init /\ [][AudioNext]_vars

----------------------------------------------------------------------------
(* C35 *)

\* the synth audioRef.current points at sounds: the last note call on it that
\* returned was an attack
Sounding == audioRef # Null /\ chains[audioRef].sounding

\* C35: over any sequence of ticks and configuration changes, the note attack
\* and release calls that succeed on a synth strictly alternate, starting with
\* an attack (a pluck retrigger being a release followed by an attack), and
\* isPlaying is true exactly when the last successful call was an attack
C35_AttackReleaseAlternate ==
    /\ \A i \in DOMAIN chains : ~chains[i].outOfTurn
    /\ isPlaying = Sounding

----------------------------------------------------------------------------
(* C36 *)

\* C36: audio objects are created once: new hand observations that arrive
\* while an initialisation is inside its awaits do not lead to a second
\* initAudio(), and no audio objects exist that are neither the ones audioRef
\* points at nor disposed
C36_AudioCreatedOnce ==
    \A i \in DOMAIN chains : i # audioRef => chains[i].disposed

----------------------------------------------------------------------------
(* C37 *)

\* C37: after a configuration change, no audio update and no note call is
\* made on disposed audio objects, also when the re-initialisation throws
C37_NoCallOnDisposed ==
    calledOn # Null => ~chains[calledOn].disposed

----------------------------------------------------------------------------
(* C38 *)

\* C38: an audio update in which a note call throws leaves the playing flag
\* in step with the synth: after a failed attack isPlaying is false and the
\* synth silent, after a failed release isPlaying is true and the synth sounds
C38_FailureKeepsFlagInStep ==
    [][ (isPlaying = Sounding /\ thrown' # << >>) => (isPlaying' = Sounding') ]_vars

====
